---- MODULE Spec2Model ----
(***************************************************************************)
(* Autocut V1 edit-plan synthesis (scripts/autocut/build_v1_edit_plan.py). *)
(*                                                                         *)
(* Times are integer milliseconds: every time the plan stores is passed    *)
(* through round(x, 3), and the configured durations are taken at          *)
(* millisecond resolution.  Frame counts are integers, as in the code.     *)
(* An absent value (Python None) is the constant None.                     *)
(***************************************************************************)
EXTENDS Integers, Sequences, FiniteSets, TLC

(* ------------------------------ bounds --------------------------------- *)
\* longest final-slide export drawn for the stage reconstructor
MaxFinal == 2
\* longest all-stages export drawn for the stage reconstructor
MaxStages == 3
\* most camera chunks one slide segment or one tail may emit before the
\* model stops following the loop
MaxChunks == 12
\* most slides, and most stages of one slide, of the timelines drawn for the retimer
MaxSlides == 2
MaxStageCount == 3
\* longest video, in seconds, drawn for the retimer
MaxVideoSeconds == 6
MaxLines == 3

(* ------------------------------ helpers -------------------------------- *)
None == -1

Min(a, b) == IF a <= b THEN a ELSE b

Max(a, b) == IF a >= b THEN a ELSE b

Abs(a) == IF a >= 0 THEN a ELSE 0 - a

\* Python round(): nearest integer to num/den, ties to the even one (den > 0)
RoundDiv(num, den) ==
  LET q == num \div den
      r == num % den
  IN  IF 2 * r < den THEN q
      ELSE IF 2 * r > den THEN q + 1
      ELSE IF q % 2 = 0 THEN q ELSE q + 1

\* round(frames / fps, 3), in milliseconds
FramesToMs(frames, fps) == RoundDiv(frames * 1000, fps)

RECURSIVE SumSeq(_)
SumSeq(s) == IF s = <<>> THEN 0 ELSE Head(s) + SumSeq(Tail(s))

\* all sequences over S of length lo..hi
SeqsOf(S, lo, hi) == UNION {[1..n -> S] : n \in lo..hi}

\* the indices 1..n that lie in the set keep, in ascending order
RECURSIVE IndicesIn(_, _)
IndicesIn(n, keep) ==
  IF n = 0 THEN <<>>
  ELSE IF n \in keep THEN Append(IndicesIn(n - 1, keep), n)
  ELSE IndicesIn(n - 1, keep)

\* sorted(indices, key, reverse=True): descending key, stable (equal keys keep
\* the order they have in indices)
RECURSIVE SortedDesc(_, _)
SortedDesc(indices, key) ==
  IF indices = <<>> THEN <<>>
  ELSE LET best == CHOOSE p \in 1..Len(indices) :
                     /\ \A q \in 1..Len(indices) : key[indices[q]] <= key[indices[p]]
                     /\ \A q \in 1..(p - 1) : key[indices[q]] < key[indices[p]]
           rest == [k \in 1..(Len(indices) - 1) |->
                      IF k < best THEN indices[k] ELSE indices[k + 1]]
       IN  <<indices[best]>> \o SortedDesc(rest, key)

(* ------------------------------- state --------------------------------- *)
VARIABLES
  pc,                   \* position in build_plan
  args,                 \* the parsed command line
  video_duration,       \* ffprobe_duration's answer, or None
  script_pdf,           \* the script PDF: given or not, readable or not, its lines
  script_details,       \* parse_script_pdf's answer, or the no-script default
  final_hashes,         \* fingerprints of the final-slide export
  stage_hashes,         \* fingerprints of the all-stages export
  groups,               \* determine_stage_groups: (start, end), 0-based
  cursor,               \* determine_stage_groups: cursor into stage_hashes
  fi,                   \* determine_stage_groups: next final hash, 1-based
  slide_timeline,
  timeline_duration,
  frame_counts,         \* retimer: frames per segment
  base_total,
  target_total,
  remainder,            \* retimer: frames still to remove
  pool,                 \* retimer: which shrink pass ("slide", "build", "all")
  candidates,           \* remove_frames: the sorted pass order
  cand_pos,             \* remove_frames: position in candidates
  progressed,
  timing_adjustment,
  script_beats,
  oncam_toggle,
  rough_main_sequence,
  seg_i,                \* synthesizer: slide segment being processed, 1-based
  chunk_cursor,         \* synthesizer / tail: cursor of the chunk loop
  chunks,               \* chunks emitted by the running chunk loop
  main_sequence,
  main_sequence_duration,
  tail_segments,        \* build_oncam_tail_segments: the tail so far
  pre_tail_sequence,    \* main_sequence as the first merge left it
  duration_delta,       \* <<delta>>, or <<>> for None
  warnings,
  plan_file             \* main: <<plan>> once the plan is written, <<>> before

inputVars == <<args, video_duration, script_pdf, final_hashes, stage_hashes>>

groupVars == <<groups, cursor, fi>>

timelineVars == <<slide_timeline, timeline_duration>>

retimeVars == <<frame_counts, base_total, target_total, remainder, pool,
                candidates, cand_pos, progressed, timing_adjustment>>

synthVars == <<script_details, script_beats, oncam_toggle, rough_main_sequence, seg_i,
               chunk_cursor, chunks>>

planVars == <<main_sequence, main_sequence_duration, tail_segments, pre_tail_sequence,
              duration_delta, warnings, plan_file>>

vars == <<pc, inputVars, groupVars, timelineVars, retimeVars, synthVars, planVars>>

(* --------------------- determine_stage_groups -------------------------- *)
\* MatchIndex scanning to the last match instead of stopping at the first
MatchIndexLast(hashes, from, final_hash) ==
  LET hits == {j \in from..(Len(hashes) - 1) : hashes[j + 1] = final_hash}
  IN  IF hits = {} THEN None
      ELSE CHOOSE j \in hits : \A k \in hits : j >= k

\* the first index >= cursor (0-based) at which stage_hashes holds final_hash,
\* or None
MatchIndex(hashes, from, final_hash) ==
  LET hits == {j \in from..(Len(hashes) - 1) : hashes[j + 1] = final_hash}
  IN  IF hits = {} THEN None
      ELSE CHOOSE j \in hits : \A k \in hits : j <= k

\* fail(): zero images in either export
GroupsFail ==
  /\ pc = "groups"
  /\ fi = 1 /\ groups = <<>>
  /\ final_hashes = <<>> \/ stage_hashes = <<>>
  /\ pc' = "failed"
  /\ UNCHANGED <<inputVars, groupVars, timelineVars, retimeVars, synthVars, planVars>>

\* one iteration of the loop with a hash match at or after the cursor
GroupMatch ==
  /\ pc = "groups"
  /\ final_hashes # <<>> /\ stage_hashes # <<>>
  /\ fi <= Len(final_hashes)
  /\ LET match_index == MatchIndex(stage_hashes, cursor, final_hashes[fi])
         start_index == cursor
         end_index   == IF match_index < start_index THEN start_index ELSE match_index
     IN  /\ match_index # None
         /\ groups' = Append(groups, <<start_index, end_index>>)
         /\ cursor' = match_index + 1
  /\ fi' = fi + 1
  /\ UNCHANGED <<pc, inputVars, timelineVars, retimeVars, synthVars, planVars>>

\* GroupFallback giving up on a final image that is found nowhere
GroupFallbackAborts ==
  /\ pc = "groups"
  /\ final_hashes # <<>> /\ stage_hashes # <<>>
  /\ fi <= Len(final_hashes)
  /\ MatchIndex(stage_hashes, cursor, final_hashes[fi]) = None
  /\ pc' = "failed"
  /\ UNCHANGED <<inputVars, groupVars, timelineVars, retimeVars, synthVars, planVars>>

\* one iteration of the loop with no match: assign one stage and continue
GroupFallback ==
  /\ pc = "groups"
  /\ final_hashes # <<>> /\ stage_hashes # <<>>
  /\ fi <= Len(final_hashes)
  /\ MatchIndex(stage_hashes, cursor, final_hashes[fi]) = None
  /\ LET fallback_index == Min(cursor, Len(stage_hashes) - 1)
     IN  /\ groups' = Append(groups, <<fallback_index, fallback_index>>)
         /\ cursor' = fallback_index + 1
  /\ fi' = fi + 1
  /\ UNCHANGED <<pc, inputVars, timelineVars, retimeVars, synthVars, planVars>>

\* after the loop: trailing stages belong to the last slide; then build_plan's
\* check that there is one group per final image
GroupsFinish ==
  /\ pc = "groups"
  /\ final_hashes # <<>> /\ stage_hashes # <<>>
  /\ fi > Len(final_hashes)
  /\ groups' = IF groups # <<>> /\ cursor < Len(stage_hashes)
               THEN [groups EXCEPT ![Len(groups)] = <<groups[Len(groups)][1], Len(stage_hashes) - 1>>]
               ELSE groups
  /\ pc' = IF Len(groups) # Len(final_hashes) THEN "failed" ELSE "timeline"
  /\ UNCHANGED <<inputVars, cursor, fi, timelineVars, retimeVars, synthVars, planVars>>

NextGroups == GroupsFail \/ GroupMatch \/ GroupFallback \/ GroupsFinish

(* ---------------------- build_plan: slide timeline --------------------- *)
\* BuildSegments with the two configured durations taken the wrong way round
RECURSIVE BuildSegmentsSwapped(_, _, _, _, _)
BuildSegmentsSwapped(gs, slide_index, current_time, build_seconds, slide_seconds) ==
  IF gs = <<>> THEN <<>>
  ELSE
    LET start_stage_idx == Head(gs)[1]
        end_stage_idx   == Head(gs)[2]
        stage_count     == Max(1, end_stage_idx - start_stage_idx + 1)
        segs == [stage_index \in 1..stage_count |->
                  LET is_final_stage == stage_index = stage_count
                      duration  == IF is_final_stage THEN build_seconds ELSE slide_seconds
                      start_sec == current_time + (stage_index - 1) * slide_seconds
                  IN  [slide_index |-> slide_index,
                       stage_index |-> stage_index,
                       stage_count_for_slide |-> stage_count,
                       global_stage_index |-> start_stage_idx + stage_index,
                       start_sec |-> start_sec,
                       end_sec |-> start_sec + duration,
                       duration_sec |-> duration,
                       kind |-> IF is_final_stage THEN "slide_hold" ELSE "build_hold",
                       source |-> "pip_slides"]]
    IN  segs \o BuildSegmentsSwapped(Tail(gs), slide_index + 1, segs[stage_count].end_sec,
                                     build_seconds, slide_seconds)

\* the segments of the groups gs, the first of which is slide slide_index and
\* starts at current_time
RECURSIVE BuildSegments(_, _, _, _, _)
BuildSegments(gs, slide_index, current_time, build_seconds, slide_seconds) ==
  IF gs = <<>> THEN <<>>
  ELSE
    LET start_stage_idx == Head(gs)[1]
        end_stage_idx   == Head(gs)[2]
        stage_count     == Max(1, end_stage_idx - start_stage_idx + 1)
        segs == [stage_index \in 1..stage_count |->
                  LET is_final_stage == stage_index = stage_count
                      duration  == IF is_final_stage THEN slide_seconds ELSE build_seconds
                      start_sec == current_time + (stage_index - 1) * build_seconds
                  IN  [slide_index |-> slide_index,
                       stage_index |-> stage_index,
                       stage_count_for_slide |-> stage_count,
                       global_stage_index |-> start_stage_idx + stage_index,
                       start_sec |-> start_sec,
                       end_sec |-> start_sec + duration,
                       duration_sec |-> duration,
                       kind |-> IF is_final_stage THEN "slide_hold" ELSE "build_hold",
                       source |-> "pip_slides"]]
    IN  segs \o BuildSegments(Tail(gs), slide_index + 1, segs[stage_count].end_sec,
                              build_seconds, slide_seconds)

\* segment_end(): the largest end_sec, 0 for an empty list
segment_end(segments) ==
  IF segments = <<>> THEN 0
  ELSE LET ends == {segments[i].end_sec : i \in 1..Len(segments)}
       IN  CHOOSE e \in ends : \A f \in ends : f <= e

\* the timeline loop of build_plan; current_time ends at the last segment's end
BuildTimeline ==
  /\ pc = "timeline"
  /\ slide_timeline' = BuildSegments(groups, 1, 0, args.build_seconds, args.slide_seconds)
  /\ timeline_duration' = slide_timeline'[Len(slide_timeline')].end_sec
  /\ pc' = "retime"
  /\ UNCHANGED <<inputVars, groupVars, retimeVars, synthVars, planVars>>

(* ------------------ retime_slide_timeline_to_target -------------------- *)
duration_to_frames(seconds, fps) == Max(1, RoundDiv(seconds * fps, 1000))

build_indices(timeline) ==
  IndicesIn(Len(timeline), {i \in 1..Len(timeline) : timeline[i].kind = "build_hold"})

slide_indices(timeline) ==
  IndicesIn(Len(timeline), {i \in 1..Len(timeline) : timeline[i].kind = "slide_hold"})

all_indices(timeline) == IndicesIn(Len(timeline), 1..Len(timeline))

min_frames_by_index(timeline, i) ==
  IF timeline[i].kind = "build_hold"
  THEN duration_to_frames(args.min_build_seconds, args.fps)
  ELSE duration_to_frames(args.min_slide_seconds, args.fps)

\* Weight without the extra stages of the slide
WeightFlat(seg) == IF seg.kind = "slide_hold" THEN 2 ELSE 1

\* add_frames: the weight of a segment
Weight(seg) ==
  Max(1, IF seg.kind = "slide_hold"
         THEN 2 + Max(0, seg.stage_count_for_slide - 1)
         ELSE 1)

\* add_frames without the round-robin pass over the leftover frames
add_frames_shares_only(timeline, counts, indices, frames_to_add) ==
  IF frames_to_add <= 0 \/ indices = <<>> THEN counts
  ELSE
    LET n == Len(indices)
        weights == [i \in 1..Len(timeline) |-> Weight(timeline[i])]
        total_weight == SumSeq([k \in 1..n |-> weights[indices[k]]])
    IN  [i \in 1..Len(timeline) |->
          IF \E k \in 1..n : indices[k] = i
          THEN counts[i] + (frames_to_add * weights[i]) \div total_weight
          ELSE counts[i]]

\* add_frames handing the leftover frames out in ascending order of the key
add_frames_lightest_first(timeline, counts, indices, frames_to_add) ==
  IF frames_to_add <= 0 \/ indices = <<>> THEN counts
  ELSE
    LET n == Len(indices)
        weights == [i \in 1..Len(timeline) |-> Weight(timeline[i])]
        total_weight == SumSeq([k \in 1..n |-> weights[indices[k]]])
        share == [i \in 1..Len(timeline) |-> (frames_to_add * weights[i]) \div total_weight]
        allocated == SumSeq([k \in 1..n |-> share[indices[k]]])
        left == frames_to_add - allocated
        key == [i \in 1..Len(timeline) |-> 0 - (weights[i] * (Len(timeline) + 1) + (Len(timeline) - i))]
        order == SortedDesc(indices, key)
        visits == [p \in 1..n |-> (left \div n) + (IF p <= left % n THEN 1 ELSE 0)]
        bonus == [i \in 1..Len(timeline) |->
                   IF \E p \in 1..n : order[p] = i
                   THEN visits[CHOOSE p \in 1..n : order[p] = i]
                   ELSE 0]
    IN  [i \in 1..Len(timeline) |->
          IF \E k \in 1..n : indices[k] = i
          THEN counts[i] + share[i] + (IF left > 0 THEN bonus[i] ELSE 0)
          ELSE counts[i]]

\* add_frames(indices, frames_to_add): the frame counts it leaves
add_frames(timeline, counts, indices, frames_to_add) ==
  IF frames_to_add <= 0 \/ indices = <<>> THEN counts
  ELSE
    LET n == Len(indices)
        weights == [i \in 1..Len(timeline) |-> Weight(timeline[i])]
        total_weight == SumSeq([k \in 1..n |-> weights[indices[k]]])
        share == [i \in 1..Len(timeline) |-> (frames_to_add * weights[i]) \div total_weight]
        allocated == SumSeq([k \in 1..n |-> share[indices[k]]])
        left == frames_to_add - allocated
        \* key (weights[i], -i), reverse=True
        key == [i \in 1..Len(timeline) |-> weights[i] * (Len(timeline) + 1) + (Len(timeline) - i)]
        order == SortedDesc(indices, key)
        \* the round-robin loop gives position p of order one frame per visit
        visits == [p \in 1..n |-> (left \div n) + (IF p <= left % n THEN 1 ELSE 0)]
        bonus == [i \in 1..Len(timeline) |->
                   IF \E p \in 1..n : order[p] = i
                   THEN visits[CHOOSE p \in 1..n : order[p] = i]
                   ELSE 0]
    IN  [i \in 1..Len(timeline) |->
          IF \E k \in 1..n : indices[k] = i
          THEN counts[i] + share[i] + (IF left > 0 THEN bonus[i] ELSE 0)
          ELSE counts[i]]

\* PoolIndices with the build holds as the first pool and the slide holds second
PoolIndicesBuildsFirst(timeline, p) ==
  IF p = "slide" THEN build_indices(timeline)
  ELSE IF p = "build" THEN slide_indices(timeline)
  ELSE all_indices(timeline)

\* the segments remove_frames is called on in each of the three passes
PoolIndices(timeline, p) ==
  IF p = "slide" THEN slide_indices(timeline)
  ELSE IF p = "build" THEN build_indices(timeline)
  ELSE all_indices(timeline)

\* RetimeWanted without the test of the timing mode
RetimeWantedAnyMode == video_duration # None /\ video_duration > 0

\* build_plan: the condition under which the retimer is called
RetimeWanted ==
  args.timing_mode = "auto-fit" /\ video_duration # None /\ video_duration > 0

\* build_plan: the retimer is not called
RetimeSkip ==
  /\ pc = "retime"
  /\ ~RetimeWanted
  /\ pc' = "script"
  /\ UNCHANGED <<inputVars, groupVars, timelineVars, retimeVars, synthVars, planVars>>

\* the retimer up to the choice between growing and shrinking; growing is
\* add_frames on the slide holds (on every segment when there is none)
RetimeStart ==
  /\ pc = "retime"
  /\ RetimeWanted
  /\ LET counts == [i \in 1..Len(slide_timeline) |->
                      duration_to_frames(slide_timeline[i].duration_sec, args.fps)]
         base   == SumSeq(counts)
         target == Max(Len(counts), RoundDiv(video_duration * args.fps, 1000))
     IN  /\ base_total' = base
         /\ target_total' = target
         /\ IF target > base
            THEN /\ frame_counts' =
                      IF slide_indices(slide_timeline) # <<>>
                      THEN add_frames(slide_timeline, counts, slide_indices(slide_timeline), target - base)
                      ELSE add_frames(slide_timeline, counts, all_indices(slide_timeline), target - base)
                 /\ remainder' = 0
                 /\ pc' = "rebuild"
            ELSE IF target < base
            THEN /\ frame_counts' = counts
                 /\ remainder' = base - target
                 /\ pc' = "shrink"
            ELSE /\ frame_counts' = counts
                 /\ remainder' = 0
                 /\ pc' = "rebuild"
  /\ pool' = "slide"
  /\ candidates' = <<>>
  /\ cand_pos' = 1
  /\ progressed' = FALSE
  /\ UNCHANGED <<inputVars, groupVars, timelineVars, timing_adjustment, synthVars, planVars>>

\* remove_frames: the head of the while loop, sorting the pool by slack
ShrinkPass ==
  /\ pc = "shrink"
  /\ remainder > 0 /\ PoolIndices(slide_timeline, pool) # <<>>
  /\ LET slack == [i \in 1..Len(slide_timeline) |->
                     frame_counts[i] - min_frames_by_index(slide_timeline, i)]
     IN  candidates' = SortedDesc(PoolIndices(slide_timeline, pool), slack)
  /\ cand_pos' = 1
  /\ progressed' = FALSE
  /\ pc' = "scan"
  /\ UNCHANGED <<inputVars, groupVars, timelineVars, frame_counts, base_total,
                 target_total, remainder, pool, timing_adjustment, synthVars, planVars>>

\* remove_frames returns: nothing to remove, an empty pool, or the while loop ends
ShrinkReturn ==
  /\ pc = "shrink"
  /\ remainder <= 0 \/ PoolIndices(slide_timeline, pool) = <<>>
  /\ pc' = "pool_done"
  /\ UNCHANGED <<inputVars, groupVars, timelineVars, retimeVars, synthVars, planVars>>

\* the for loop passes over a candidate that is at or below its floor
ScanSkip ==
  /\ pc = "scan"
  /\ cand_pos <= Len(candidates)
  /\ frame_counts[candidates[cand_pos]] <= min_frames_by_index(slide_timeline, candidates[cand_pos])
  /\ cand_pos' = cand_pos + 1
  /\ UNCHANGED <<pc, inputVars, groupVars, timelineVars, frame_counts, base_total,
                 target_total, remainder, pool, candidates, progressed,
                 timing_adjustment, synthVars, planVars>>

\* the for loop takes one frame from a candidate above its floor
ScanTake ==
  /\ pc = "scan"
  /\ cand_pos <= Len(candidates)
  /\ frame_counts[candidates[cand_pos]] > min_frames_by_index(slide_timeline, candidates[cand_pos])
  /\ frame_counts' = [frame_counts EXCEPT ![candidates[cand_pos]] = @ - 1]
  /\ remainder' = remainder - 1
  /\ progressed' = TRUE
  /\ IF remainder - 1 <= 0
     THEN pc' = "shrink" /\ cand_pos' = cand_pos
     ELSE pc' = "scan" /\ cand_pos' = cand_pos + 1
  /\ UNCHANGED <<inputVars, groupVars, timelineVars, base_total, target_total,
                 pool, candidates, timing_adjustment, synthVars, planVars>>

\* ScanEnd leaving the pool after a single pass
ScanEndOnePass ==
  /\ pc = "scan"
  /\ cand_pos > Len(candidates)
  /\ pc' = "pool_done"
  /\ UNCHANGED <<inputVars, groupVars, timelineVars, retimeVars, synthVars, planVars>>

\* the for loop is exhausted: stop the pool when the pass removed nothing
ScanEnd ==
  /\ pc = "scan"
  /\ cand_pos > Len(candidates)
  /\ pc' = IF progressed THEN "shrink" ELSE "pool_done"
  /\ UNCHANGED <<inputVars, groupVars, timelineVars, retimeVars, synthVars, planVars>>

\* NextPool with the slide holds as the only pool
NextPoolSlidesOnly ==
  /\ pc = "pool_done"
  /\ pc' = "rebuild"
  /\ UNCHANGED <<inputVars, groupVars, timelineVars, retimeVars, synthVars, planVars>>

\* the caller of remove_frames: slide holds, then build holds, then any segment
NextPool ==
  /\ pc = "pool_done"
  /\ IF remainder > 0 /\ pool = "slide" THEN pool' = "build" /\ pc' = "shrink"
     ELSE IF remainder > 0 /\ pool = "build" THEN pool' = "all" /\ pc' = "shrink"
     ELSE pool' = pool /\ pc' = "rebuild"
  /\ UNCHANGED <<inputVars, groupVars, timelineVars, frame_counts, base_total,
                 target_total, remainder, candidates, cand_pos, progressed,
                 timing_adjustment, synthVars, planVars>>

\* frames up to and including segment i, each segment at least one frame
RECURSIVE EndFrames(_, _)
EndFrames(counts, i) == IF i = 0 THEN 0 ELSE EndFrames(counts, i - 1) + Max(1, counts[i])

\* the forward cumulative pass, the report, and build_plan taking the result
Rebuild ==
  /\ pc = "rebuild"
  /\ slide_timeline' =
       [i \in 1..Len(slide_timeline) |->
          LET start_frames == EndFrames(frame_counts, i - 1)
              end_frames   == EndFrames(frame_counts, i)
          IN  [slide_timeline[i] EXCEPT
                 !.start_sec = FramesToMs(start_frames, args.fps),
                 !.end_sec = FramesToMs(end_frames, args.fps),
                 !.duration_sec = FramesToMs(end_frames - start_frames, args.fps)]]
  /\ timing_adjustment' =
       [retimed |-> TRUE,
        base_duration_sec |-> FramesToMs(base_total, args.fps),
        target_duration_sec |-> FramesToMs(target_total, args.fps),
        result_duration_sec |-> FramesToMs(EndFrames(frame_counts, Len(frame_counts)), args.fps),
        build_min_seconds |-> args.min_build_seconds,
        slide_min_seconds |-> args.min_slide_seconds]
  /\ timeline_duration' = segment_end(slide_timeline')
  /\ warnings' = Append(warnings, "auto_fit_adjusted")
  /\ pc' = "script"
  /\ UNCHANGED <<inputVars, groupVars, frame_counts, base_total, target_total,
                 remainder, pool, candidates, cand_pos, progressed, synthVars,
                 main_sequence, main_sequence_duration, tail_segments,
                 pre_tail_sequence, duration_delta, plan_file>>

NextRetime ==
  \/ RetimeSkip \/ RetimeStart \/ ShrinkPass \/ ShrinkReturn
  \/ ScanSkip \/ ScanTake \/ ScanEnd \/ NextPool \/ Rebuild

(* --------------------------- script beats ------------------------------ *)
NoPreference == "none"

NoWarning == ""

\* the cue categories, as parse_script_pdf names them
Cues == {"ONCAM", "SLIDE", "PIP", "BROLL", "GFX", "MUSIC"}

\* a Counter nothing has been counted in
NoCounts == [cue \in Cues |-> 0]

\* build_plan's script_details when no script PDF is given
NoScript == [available |-> FALSE, warning |-> "no script PDF provided",
             cue_counts |-> NoCounts, cue_lines |-> <<>>]

\* a clean line of the PDF: tag is the first match of CUE_PATTERN in it as it
\* is spelled there ("" when the line has none), text tells apart the lines of
\* one tag
Line(tag, text) == [tag |-> tag, text |-> text]

\* str.upper() on the spellings the model uses
Upper(tag) ==
  IF tag = "Slide" THEN "SLIDE"
  ELSE IF tag = "on-cam" THEN "ON-CAM"
  ELSE IF tag = "b-roll" THEN "B-ROLL"
  ELSE tag

\* str.replace("-", "") on an upper-case tag
WithoutHyphen(tag) ==
  IF tag = "ON-CAM" THEN "ONCAM"
  ELSE IF tag = "B-ROLL" THEN "BROLL"
  ELSE tag

\* ParseLines counting a line only when it is kept
RECURSIVE ParseLinesCountingKept(_, _, _, _)
ParseLinesCountingKept(lines, cue_lines, cue_counts, seen_line) ==
  IF lines = <<>> THEN [cue_lines |-> cue_lines, cue_counts |-> cue_counts]
  ELSE
    LET line == Head(lines)
        cue == WithoutHyphen(Upper(line.tag))
    IN  IF line.tag = "" \/ line \in seen_line
        THEN ParseLinesCountingKept(Tail(lines), cue_lines, cue_counts, seen_line)
        ELSE ParseLinesCountingKept(Tail(lines),
                                    Append(cue_lines, [cue |-> cue, text |-> line]),
                                    [cue_counts EXCEPT ![cue] = @ + 1],
                                    seen_line \cup {line})

\* parse_script_pdf: the loop over all_lines
RECURSIVE ParseLines(_, _, _, _)
ParseLines(lines, cue_lines, cue_counts, seen_line) ==
  IF lines = <<>> THEN [cue_lines |-> cue_lines, cue_counts |-> cue_counts]
  ELSE
    LET line == Head(lines)
        cue == WithoutHyphen(Upper(line.tag))
        counted == [cue_counts EXCEPT ![cue] = @ + 1]
    IN  IF line.tag = ""
        THEN ParseLines(Tail(lines), cue_lines, cue_counts, seen_line)
        ELSE IF line \in seen_line
        THEN ParseLines(Tail(lines), cue_lines, counted, seen_line)
        ELSE ParseLines(Tail(lines), Append(cue_lines, [cue |-> cue, text |-> line]),
                        counted, seen_line \cup {line})

\* parse_script_pdf: no cue extraction without pypdf, else the cues of the lines
parse_script_pdf(pdf) ==
  IF ~pdf.pypdf
  THEN [available |-> FALSE,
        warning |-> "pypdf not installed; skipping PDF cue extraction.",
        cue_counts |-> NoCounts, cue_lines |-> <<>>]
  ELSE LET parsed == ParseLines(pdf.lines, <<>>, NoCounts, {})
       IN  [available |-> TRUE, warning |-> NoWarning,
            cue_counts |-> parsed.cue_counts, cue_lines |-> parsed.cue_lines]

cue_to_preference(cue) ==
  IF cue \in {"SLIDE", "PIP"} THEN "pip_slides"
  ELSE IF cue = "ONCAM" THEN "oncam"
  ELSE IF cue = "BROLL" THEN "broll"
  ELSE NoPreference

\* equal slots whose bounds are cut to the millisecond below
build_script_beats_floored(cue_lines, duration) ==
  IF cue_lines = <<>> \/ duration <= 0 THEN <<>>
  ELSE [index \in 1..Len(cue_lines) |->
          [index |-> index,
           start_sec |-> ((index - 1) * duration) \div Len(cue_lines),
           end_sec |-> (index * duration) \div Len(cue_lines),
           cue |-> cue_lines[index].cue,
           text |-> cue_lines[index].text,
           preferred_source |-> cue_to_preference(cue_lines[index].cue)]]

\* equal slots of timeline_duration / len(cue_lines), bounds rounded to the ms
build_script_beats(cue_lines, duration) ==
  IF cue_lines = <<>> \/ duration <= 0 THEN <<>>
  ELSE [index \in 1..Len(cue_lines) |->
          [index |-> index,
           start_sec |-> RoundDiv((index - 1) * duration, Len(cue_lines)),
           end_sec |-> RoundDiv(index * duration, Len(cue_lines)),
           cue |-> cue_lines[index].cue,
           text |-> cue_lines[index].text,
           preferred_source |-> cue_to_preference(cue_lines[index].cue)]]

\* the preference of the first beat with start <= when < end; when2 is twice
\* the time asked for, a midpoint being a whole number of half milliseconds
preference_at_time(beats, when2) ==
  LET hits == {b \in 1..Len(beats) :
                 2 * beats[b].start_sec <= when2 /\ when2 < 2 * beats[b].end_sec}
  IN  IF hits = {} THEN NoPreference
      ELSE beats[CHOOSE b \in hits : \A c \in hits : b <= c].preferred_source

\* build_plan: script details, cue lines and beats, and the synthesizer's start
Script ==
  /\ pc = "script"
  /\ script_details' = IF script_pdf.given THEN parse_script_pdf(script_pdf) ELSE NoScript
  /\ script_beats' = build_script_beats(script_details'.cue_lines, timeline_duration)
  /\ oncam_toggle' = 0
  /\ rough_main_sequence' = <<>>
  /\ seg_i' = 1
  /\ pc' = "synth"
  /\ UNCHANGED <<inputVars, groupVars, timelineVars, retimeVars, chunk_cursor, chunks, planVars>>

(* ----------------------- main sequence switching ----------------------- *)
RoughSegment(start_sec, end_sec, duration_sec, source, reason, slide_index, stage_index) ==
  [start_sec |-> start_sec, end_sec |-> end_sec, duration_sec |-> duration_sec,
   source |-> source, reason |-> reason,
   linked_slide_index |-> slide_index, linked_stage_index |-> stage_index]

\* Midpoint2 taking the segment's start for its midpoint
Midpoint2AtStart(segment) == 2 * segment.start_sec

\* twice the midpoint start_sec + (end_sec - start_sec) / 2
Midpoint2(segment) == 2 * segment.start_sec + (segment.end_sec - segment.start_sec)

\* SynthBuildHold asking the script first: a build hold in an ONCAM beat goes
\* to the camera
SynthBuildHoldByScript ==
  /\ pc = "synth"
  /\ seg_i <= Len(slide_timeline)
  /\ LET segment == slide_timeline[seg_i]
         oncam == preference_at_time(script_beats, Midpoint2(segment)) = "oncam"
     IN  /\ segment.kind = "build_hold"
         /\ rough_main_sequence' = Append(rough_main_sequence,
              RoughSegment(segment.start_sec, segment.end_sec,
                           segment.end_sec - segment.start_sec,
                           IF ~oncam THEN "pip_slides"
                           ELSE IF oncam_toggle % 2 = 0 THEN "wide" ELSE "punch",
                           IF oncam THEN "script_prefers_oncam" ELSE "build_transition",
                           segment.slide_index, segment.stage_index))
         /\ oncam_toggle' = IF oncam THEN oncam_toggle + 1 ELSE oncam_toggle
  /\ seg_i' = seg_i + 1
  /\ UNCHANGED <<pc, inputVars, groupVars, timelineVars, retimeVars, script_details, script_beats,
                 chunk_cursor, chunks, planVars>>

\* a build hold: PiP for the whole segment
SynthBuildHold ==
  /\ pc = "synth"
  /\ seg_i <= Len(slide_timeline)
  /\ LET segment == slide_timeline[seg_i]
     IN  /\ segment.kind = "build_hold"
         /\ rough_main_sequence' = Append(rough_main_sequence,
              RoughSegment(segment.start_sec, segment.end_sec,
                           segment.end_sec - segment.start_sec, "pip_slides",
                           "build_transition", segment.slide_index, segment.stage_index))
  /\ seg_i' = seg_i + 1
  /\ UNCHANGED <<pc, inputVars, groupVars, timelineVars, retimeVars, script_details, script_beats,
                 oncam_toggle, chunk_cursor, chunks, planVars>>

\* a final hold whose midpoint beat prefers the slides: PiP for the whole segment
SynthScriptSlides ==
  /\ pc = "synth"
  /\ seg_i <= Len(slide_timeline)
  /\ LET segment == slide_timeline[seg_i]
     IN  /\ segment.kind # "build_hold"
         /\ preference_at_time(script_beats, Midpoint2(segment)) = "pip_slides"
         /\ rough_main_sequence' = Append(rough_main_sequence,
              RoughSegment(segment.start_sec, segment.end_sec,
                           segment.end_sec - segment.start_sec, "pip_slides",
                           "script_prefers_slides", segment.slide_index, segment.stage_index))
  /\ seg_i' = seg_i + 1
  /\ UNCHANGED <<pc, inputVars, groupVars, timelineVars, retimeVars, script_details, script_beats,
                 oncam_toggle, chunk_cursor, chunks, planVars>>

\* any other final hold: the PiP lead, when positive, and the chunk loop's cursor
SynthLead ==
  /\ pc = "synth"
  /\ seg_i <= Len(slide_timeline)
  /\ LET segment == slide_timeline[seg_i]
         duration_sec == segment.end_sec - segment.start_sec
         pip_lead == Min(args.pip_lead_seconds, duration_sec)
     IN  /\ segment.kind # "build_hold"
         /\ preference_at_time(script_beats, Midpoint2(segment)) # "pip_slides"
         /\ rough_main_sequence' =
              IF pip_lead > 0
              THEN Append(rough_main_sequence,
                     RoughSegment(segment.start_sec, segment.start_sec + pip_lead, pip_lead,
                                  "pip_slides", "slide_intro",
                                  segment.slide_index, segment.stage_index))
              ELSE rough_main_sequence
         /\ chunk_cursor' = segment.start_sec + pip_lead
  /\ chunks' = 0
  /\ pc' = "chunks"
  /\ UNCHANGED <<inputVars, groupVars, timelineVars, retimeVars, script_details, script_beats,
                 oncam_toggle, seg_i, planVars>>

\* SynthChunk advancing the toggle only for the shot clock's own chunks
SynthChunkScriptKeepsToggle ==
  /\ pc = "chunks"
  /\ chunks < MaxChunks
  /\ LET segment == slide_timeline[seg_i]
         remaining == segment.end_sec - chunk_cursor
         take == Min(args.shot_clock_seconds, remaining)
         preferred == preference_at_time(script_beats, Midpoint2(segment))
         source == IF oncam_toggle % 2 = 0 THEN "wide" ELSE "punch"
         reason == IF preferred = "oncam" THEN "script_prefers_oncam" ELSE "shot_clock_rotation"
     IN  /\ chunk_cursor < segment.end_sec
         /\ rough_main_sequence' = Append(rough_main_sequence,
              RoughSegment(chunk_cursor, chunk_cursor + take, take, source, reason,
                           segment.slide_index, segment.stage_index))
         /\ chunk_cursor' = chunk_cursor + take
         /\ oncam_toggle' = IF preferred = "oncam" THEN oncam_toggle ELSE oncam_toggle + 1
  /\ chunks' = chunks + 1
  /\ UNCHANGED <<pc, inputVars, groupVars, timelineVars, retimeVars, script_details, script_beats,
                 seg_i, planVars>>

\* one iteration of the while loop: a wide or punch chunk of at most the shot clock
SynthChunk ==
  /\ pc = "chunks"
  /\ chunks < MaxChunks
  /\ LET segment == slide_timeline[seg_i]
         remaining == segment.end_sec - chunk_cursor
         take == Min(args.shot_clock_seconds, remaining)
         preferred == preference_at_time(script_beats, Midpoint2(segment))
         source == IF oncam_toggle % 2 = 0 THEN "wide" ELSE "punch"
         reason == IF preferred = "oncam" THEN "script_prefers_oncam" ELSE "shot_clock_rotation"
     IN  /\ chunk_cursor < segment.end_sec
         /\ rough_main_sequence' = Append(rough_main_sequence,
              RoughSegment(chunk_cursor, chunk_cursor + take, take, source, reason,
                           segment.slide_index, segment.stage_index))
         /\ chunk_cursor' = chunk_cursor + take
  /\ oncam_toggle' = oncam_toggle + 1
  /\ chunks' = chunks + 1
  /\ UNCHANGED <<pc, inputVars, groupVars, timelineVars, retimeVars, script_details, script_beats,
                 seg_i, planVars>>

\* the while loop ends: on to the next slide segment
SynthChunksDone ==
  /\ pc = "chunks"
  /\ chunk_cursor >= slide_timeline[seg_i].end_sec
  /\ seg_i' = seg_i + 1
  /\ pc' = "synth"
  /\ UNCHANGED <<inputVars, groupVars, timelineVars, retimeVars, script_details, script_beats,
                 oncam_toggle, rough_main_sequence, chunk_cursor, chunks, planVars>>

(* ----------------------- merge_adjacent_segments ----------------------- *)
\* dict(segment) with reasons = [segment["reason"]]
WithReasons(segment) ==
  [start_sec |-> segment.start_sec, end_sec |-> segment.end_sec,
   duration_sec |-> segment.duration_sec, source |-> segment.source,
   reason |-> segment.reason,
   linked_slide_index |-> segment.linked_slide_index,
   linked_stage_index |-> segment.linked_stage_index,
   reasons |-> <<segment.reason>>]

\* the body of the loop for one segment
MergeOne(merged, segment) ==
  IF merged = <<>> THEN <<WithReasons(segment)>>
  ELSE LET previous == merged[Len(merged)]
           contiguous == previous.end_sec = segment.start_sec
       IN  IF contiguous /\ previous.source = segment.source
           THEN [merged EXCEPT ![Len(merged)] =
                   [previous EXCEPT !.end_sec = segment.end_sec,
                                    !.duration_sec = segment.end_sec - previous.start_sec,
                                    !.reasons = Append(previous.reasons, segment.reason)]]
           ELSE Append(merged, WithReasons(segment))

RECURSIVE MergeInto(_, _)
MergeInto(merged, segments) ==
  IF segments = <<>> THEN merged
  ELSE CHOOSE result \in {MergeInto(next, Tail(segments)) :
                            next \in {MergeOne(merged, Head(segments))}} : TRUE

merge_adjacent_segments(segments) == MergeInto(<<>>, segments)

\* after the pass: the first merge, its duration and the script warning
MergeMain ==
  /\ pc = "synth"
  /\ seg_i > Len(slide_timeline)
  /\ main_sequence' = merge_adjacent_segments(rough_main_sequence)
  /\ pre_tail_sequence' = main_sequence'
  /\ main_sequence_duration' = segment_end(main_sequence')
  /\ warnings' = IF script_details.warning # NoWarning
                 THEN Append(warnings, script_details.warning)
                 ELSE warnings
  /\ pc' = "tail"
  /\ UNCHANGED <<inputVars, groupVars, timelineVars, retimeVars, synthVars,
                 tail_segments, duration_delta, plan_file>>

(* ------------------------- tail reconciliation ------------------------- *)
TailWanted ==
  /\ video_duration # None
  /\ args.video_fit_mode = "append-oncam-tail"
  /\ video_duration > main_sequence_duration

\* TailStart handing the tail a toggle that starts over at 0
TailStartToggleReset ==
  /\ pc = "tail"
  /\ TailWanted
  /\ chunk_cursor' = main_sequence_duration
  /\ chunks' = 0
  /\ tail_segments' = <<>>
  /\ oncam_toggle' = 0
  /\ pc' = "tail_chunks"
  /\ UNCHANGED <<inputVars, groupVars, timelineVars, retimeVars, script_details, script_beats,
                 rough_main_sequence, seg_i, main_sequence,
                 main_sequence_duration, pre_tail_sequence, duration_delta, warnings,
                 plan_file>>

\* build_oncam_tail_segments is called
TailStart ==
  /\ pc = "tail"
  /\ TailWanted
  /\ chunk_cursor' = main_sequence_duration
  /\ chunks' = 0
  /\ tail_segments' = <<>>
  /\ pc' = "tail_chunks"
  /\ UNCHANGED <<inputVars, groupVars, timelineVars, retimeVars, script_details, script_beats,
                 oncam_toggle, rough_main_sequence, seg_i, main_sequence,
                 main_sequence_duration, pre_tail_sequence, duration_delta, warnings,
                 plan_file>>

\* no tail is appended
TailSkip ==
  /\ pc = "tail"
  /\ ~TailWanted
  /\ pc' = "drift"
  /\ UNCHANGED <<inputVars, groupVars, timelineVars, retimeVars, synthVars, planVars>>

\* TailChunk staying on the camera it started with
TailChunkOneCamera ==
  /\ pc = "tail_chunks"
  /\ chunks < MaxChunks
  /\ chunk_cursor < video_duration
  /\ LET remaining == video_duration - chunk_cursor
         take == Min(args.shot_clock_seconds, remaining)
         source == IF oncam_toggle % 2 = 0 THEN "wide" ELSE "punch"
     IN  /\ tail_segments' = Append(tail_segments,
              RoughSegment(chunk_cursor, chunk_cursor + take, take, source,
                           "video_tail_no_slides", None, None))
         /\ chunk_cursor' = chunk_cursor + take
  /\ chunks' = chunks + 1
  /\ UNCHANGED <<pc, inputVars, groupVars, timelineVars, retimeVars, script_details, script_beats,
                 oncam_toggle, rough_main_sequence, seg_i, main_sequence, main_sequence_duration,
                 pre_tail_sequence, duration_delta, warnings, plan_file>>

\* one iteration of the tail loop
TailChunk ==
  /\ pc = "tail_chunks"
  /\ chunks < MaxChunks
  /\ chunk_cursor < video_duration
  /\ LET remaining == video_duration - chunk_cursor
         take == Min(args.shot_clock_seconds, remaining)
         source == IF oncam_toggle % 2 = 0 THEN "wide" ELSE "punch"
     IN  /\ tail_segments' = Append(tail_segments,
              RoughSegment(chunk_cursor, chunk_cursor + take, take, source,
                           "video_tail_no_slides", None, None))
         /\ chunk_cursor' = chunk_cursor + take
  /\ oncam_toggle' = oncam_toggle + 1
  /\ chunks' = chunks + 1
  /\ UNCHANGED <<pc, inputVars, groupVars, timelineVars, retimeVars, script_details, script_beats,
                 rough_main_sequence, seg_i, main_sequence, main_sequence_duration,
                 pre_tail_sequence, duration_delta, warnings, plan_file>>

\* the tail loop ends; build_plan appends the tail and merges again
TailAppend ==
  /\ pc = "tail_chunks"
  /\ chunk_cursor >= video_duration
  /\ IF tail_segments # <<>>
     THEN /\ main_sequence' = merge_adjacent_segments(main_sequence \o tail_segments)
          /\ main_sequence_duration' = segment_end(main_sequence')
          /\ warnings' = Append(warnings, "appended_oncam_tail")
     ELSE UNCHANGED <<main_sequence, main_sequence_duration, warnings>>
  /\ pc' = "drift"
  /\ UNCHANGED <<inputVars, groupVars, timelineVars, retimeVars, synthVars,
                 tail_segments, pre_tail_sequence, duration_delta, plan_file>>

\* Drift measuring against the main sequence as it was before the tail
DriftPreTail ==
  /\ pc = "drift"
  /\ duration_delta' = IF video_duration # None
                       THEN <<video_duration - segment_end(pre_tail_sequence)>>
                       ELSE <<>>
  /\ warnings' = IF /\ video_duration # None
                    /\ Abs(video_duration - segment_end(pre_tail_sequence)) > 5000
                 THEN Append(warnings, "duration_drift")
                 ELSE warnings
  /\ pc' = "done"
  /\ UNCHANGED <<inputVars, groupVars, timelineVars, retimeVars, synthVars,
                 main_sequence, main_sequence_duration, tail_segments, pre_tail_sequence,
                 plan_file>>

\* Drift warning only of a video longer than the main sequence
DriftSigned ==
  /\ pc = "drift"
  /\ duration_delta' = IF video_duration # None
                       THEN <<video_duration - main_sequence_duration>>
                       ELSE <<>>
  /\ warnings' = IF video_duration # None /\ video_duration - main_sequence_duration > 5000
                 THEN Append(warnings, "duration_drift")
                 ELSE warnings
  /\ pc' = "done"
  /\ UNCHANGED <<inputVars, groupVars, timelineVars, retimeVars, synthVars,
                 main_sequence, main_sequence_duration, tail_segments, pre_tail_sequence,
                 plan_file>>

\* the duration delta and the drift warning; the plan is returned
Drift ==
  /\ pc = "drift"
  /\ duration_delta' = IF video_duration # None
                       THEN <<video_duration - main_sequence_duration>>
                       ELSE <<>>
  /\ warnings' = IF video_duration # None /\ Abs(video_duration - main_sequence_duration) > 5000
                 THEN Append(warnings, "duration_drift")
                 ELSE warnings
  /\ pc' = "done"
  /\ UNCHANGED <<inputVars, groupVars, timelineVars, retimeVars, synthVars,
                 main_sequence, main_sequence_duration, tail_segments, pre_tail_sequence,
                 plan_file>>

\* the dictionary build_plan returns, as far as the pipeline fills it
Plan ==
  [summary |-> [final_export_image_count |-> Len(final_hashes),
                all_stage_export_image_count |-> Len(stage_hashes),
                timeline_duration_sec |-> timeline_duration,
                main_sequence_duration_sec |-> main_sequence_duration,
                video_duration_sec |-> video_duration,
                duration_delta_sec |-> duration_delta,
                main_sequence_cut_count |-> Len(main_sequence),
                script_cue_count |-> Len(script_details.cue_lines),
                timing_adjustment |-> timing_adjustment],
   beats |-> script_beats,
   slide_timeline |-> slide_timeline,
   main_sequence |-> main_sequence,
   warnings |-> warnings]

\* WritePlan writing what there is before the drift step has run
WritePlanEarly ==
  /\ pc \in {"drift", "done"}
  /\ plan_file' = <<Plan>>
  /\ pc' = "written"
  /\ UNCHANGED <<inputVars, groupVars, timelineVars, retimeVars, synthVars,
                 main_sequence, main_sequence_duration, tail_segments, pre_tail_sequence,
                 duration_delta, warnings>>

\* main: the plan build_plan returned is written to the output file
WritePlan ==
  /\ pc = "done"
  /\ plan_file' = <<Plan>>
  /\ pc' = "written"
  /\ UNCHANGED <<inputVars, groupVars, timelineVars, retimeVars, synthVars,
                 main_sequence, main_sequence_duration, tail_segments, pre_tail_sequence,
                 duration_delta, warnings>>

NextSynth ==
  \/ Script \/ SynthBuildHold \/ SynthScriptSlides \/ SynthLead \/ SynthChunk
  \/ SynthChunksDone \/ MergeMain \/ TailStart \/ TailSkip \/ TailChunk
  \/ TailAppend \/ Drift \/ WritePlan

Next == NextGroups \/ BuildTimeline \/ NextRetime \/ NextSynth

(* --------------------------- initial states ---------------------------- *)
Args(build, slide, lead, clock, mode, min_build, min_slide, fit, fps) ==
  [build_seconds |-> build, slide_seconds |-> slide, pip_lead_seconds |-> lead,
   shot_clock_seconds |-> clock, timing_mode |-> mode,
   min_build_seconds |-> min_build, min_slide_seconds |-> min_slide,
   video_fit_mode |-> fit, fps |-> fps]

\* no --script-pdf on the command line
NoPdf == [given |-> FALSE, pypdf |-> TRUE, lines |-> <<>>]

\* a script PDF with these clean, non-empty lines
PdfWith(lines) == [given |-> TRUE, pypdf |-> TRUE, lines |-> lines]

\* a script PDF on a machine where pypdf cannot be imported
PdfUnread == [given |-> TRUE, pypdf |-> FALSE, lines |-> <<>>]

\* parse_args: the defaults of the command line
DefaultArgs == Args(1000, 6000, 2000, 12000, "auto-fit", 250, 1000, "append-oncam-tail", 30)

\* the state build_plan holds for the steps that have not run yet
InitAfterGroups ==
  /\ slide_timeline = <<>> /\ timeline_duration = 0
  /\ frame_counts = <<>> /\ base_total = 0 /\ target_total = 0 /\ remainder = 0
  /\ pool = "slide" /\ candidates = <<>> /\ cand_pos = 1 /\ progressed = FALSE
  /\ timing_adjustment = [retimed |-> FALSE]
  /\ script_beats = <<>> /\ oncam_toggle = 0 /\ rough_main_sequence = <<>>
  /\ seg_i = 1 /\ chunk_cursor = 0 /\ chunks = 0
  /\ main_sequence = <<>> /\ main_sequence_duration = 0 /\ tail_segments = <<>>
  /\ pre_tail_sequence = <<>> /\ duration_delta = <<>> /\ warnings = <<>>
  /\ plan_file = <<>>

InitRest ==
  /\ groups = <<>> /\ cursor = 0 /\ fi = 1
  /\ InitAfterGroups

\* fingerprints are small integers
Hashes == 1..3

\* every pair of exports, empty ones included, under the default command line
InitGroups ==
  /\ pc = "groups"
  /\ final_hashes \in SeqsOf(Hashes, 0, MaxFinal)
  /\ stage_hashes \in SeqsOf(Hashes, 0, MaxStages)
  /\ args = DefaultArgs
  /\ video_duration = None
  /\ script_pdf = NoPdf
  /\ script_details = NoScript
  /\ InitRest

SpecGroups == InitGroups /\ [][NextGroups]_vars

\* an all-stages export in which slide k has counts[k] distinct stages, and the
\* final-slide export that goes with it
RECURSIVE EndOf(_, _)
EndOf(counts, k) == IF k = 0 THEN 0 ELSE EndOf(counts, k - 1) + counts[k]

StagesOf(counts) == [j \in 1..EndOf(counts, Len(counts)) |-> j]

FinalsOf(counts) == [k \in 1..Len(counts) |-> EndOf(counts, k)]

\* the state determine_stage_groups leaves for such a pair of exports
ReconstructedFrom(counts) ==
  /\ stage_hashes = StagesOf(counts)
  /\ final_hashes = FinalsOf(counts)
  /\ groups = [k \in 1..Len(counts) |-> <<EndOf(counts, k - 1), EndOf(counts, k) - 1>>]
  /\ cursor = EndOf(counts, Len(counts))
  /\ fi = Len(counts) + 1

\* Scenario A's deck
ScenarioCounts == <<1, 3, 1>>

\* the retimer's inputs: small decks at 2 and 3 frames per second with authored
\* durations, floors and video lengths on both sides of each other, and
\* Scenario B (the default command line, a 30 s video)
RetimeInputs ==
  {<<counts, Args(build, slide, 2000, 12000, mode, min_build, min_slide, "none", fps), video>> :
      counts \in SeqsOf(1..MaxStageCount, 1, MaxSlides),
      build \in {500, 1000}, slide \in {1000, 2000},
      mode \in {"auto-fit"},
      min_build \in {500, 1000}, min_slide \in {1000, 1500},
      fps \in {2, 3},
      video \in {1000 * s : s \in 1..MaxVideoSeconds}}
  \cup {<<ScenarioCounts, DefaultArgs, 30000>>}
  \cup {<<ScenarioCounts, Args(1000, 6000, 2000, 12000, mode, 250, 1000, "none", 30), video>> :
          mode \in {"fixed", "auto-fit"}, video \in {None, 0, 19000}}

InitRetime ==
  /\ pc = "timeline"
  /\ \E input \in RetimeInputs :
       /\ ReconstructedFrom(input[1])
       /\ args = input[2]
       /\ video_duration = input[3]
  /\ script_pdf = NoPdf
  /\ script_details = NoScript
  /\ InitAfterGroups

SpecRetime == InitRetime /\ [][BuildTimeline \/ NextRetime]_vars

\* the exports build_plan is run on: both empty cases, Scenario A's deck, a
\* one-slide deck with a build, a trailing stage after the last final image,
\* and a final image that is found nowhere once the cursor is at the end
PlanExports ==
  {<<<<>>, <<1>>>>, <<<<1>>, <<>>>>,
   <<FinalsOf(ScenarioCounts), StagesOf(ScenarioCounts)>>,
   <<<<2>>, <<1, 2>>>>,
   <<<<1>>, <<1, 2>>>>,
   <<<<2, 3>>, <<1, 2>>>>}

\* scripts: none; SLIDE, SLIDE, ON-CAM around a line without a cue; one
\* ON-CAM line twice; GFX, PIP with the GFX line repeated; B-ROLL, ONCAM
PlanScripts ==
  {NoPdf,
   PdfWith(<<Line("SLIDE", 1), Line("", 2), Line("Slide", 3), Line("ON-CAM", 4)>>),
   PdfWith(<<Line("on-cam", 1), Line("", 2), Line("on-cam", 1)>>),
   PdfWith(<<Line("GFX", 1), Line("PIP", 2), Line("GFX", 1)>>),
   PdfWith(<<Line("B-ROLL", 1), Line("ONCAM", 2)>>)}

\* command lines, videos and scripts build_plan is run with: every export under
\* the defaults in either timing mode (Scenario D among them) with no video, an
\* empty one, one of 1350 frames and one of a third of a frame more, and the two
\* regular decks under each combination of build duration, PiP lead, shot
\* clock, timing mode, fit mode, video and script
PlanInputs ==
  {<<e[1], e[2], Args(1000, 6000, 2000, 12000, mode, 250, 1000, "append-oncam-tail", 30),
     video, script>> :
      e \in PlanExports, mode \in {"fixed", "auto-fit"}, video \in {None, 0, 45000, 45010},
      script \in {NoPdf, PdfUnread}}
  \cup
  {<<FinalsOf(counts), StagesOf(counts),
     Args(build, 6000, lead, clock, mode, 500, 1000, fit, 2), video, script>> :
      counts \in {ScenarioCounts, <<2>>},
      build \in {0, 1000},
      lead \in {-1000, 0, 2000, 7000},
      clock \in {4000, 12000},
      mode \in {"fixed", "auto-fit"},
      fit \in {"none", "append-oncam-tail"},
      video \in {None, 4000, 20000, 25000, 45000},
      script \in PlanScripts}

InitPlan ==
  /\ pc = "groups"
  /\ \E input \in PlanInputs :
       /\ final_hashes = input[1]
       /\ stage_hashes = input[2]
       /\ args = input[3]
       /\ video_duration = input[4]
       /\ script_pdf = input[5]
  /\ script_details = NoScript
  /\ InitRest

Spec == InitPlan /\ [][Next]_vars

\* the lines script PDFs are made of: two SLIDE lines, ON-CAM in two spellings
\* (the same cue, different lines), B-ROLL, GFX and MUSIC lines and a line
\* without a cue
ScriptLines ==
  {Line("SLIDE", 1), Line("SLIDE", 2), Line("on-cam", 1), Line("ONCAM", 1),
   Line("B-ROLL", 1), Line("GFX", 1), Line("MUSIC", 1), Line("", 1)}

\* no script, an unreadable one, and every script of up to MaxLines lines
ScriptInputs ==
  {NoPdf, PdfUnread} \cup {PdfWith(lines) : lines \in SeqsOf(ScriptLines, 0, MaxLines)}

\* the timelines the scripts are laid over: a one-slide deck with a build in
\* fixed mode, the same deck grown to a longer video and shrunk to shorter
\* ones, Scenario B, and a deck whose authored durations are all zero
ScriptTimings ==
  {<<<<2>>, Args(1000, 6000, 2000, 12000, "fixed", 250, 1000, "append-oncam-tail", 30), None>>,
   <<<<2>>, Args(1000, 6000, 2000, 12000, "auto-fit", 250, 1000, "append-oncam-tail", 2), 10000>>,
   <<<<2, 1>>, Args(1000, 2000, 2000, 12000, "auto-fit", 500, 1000, "none", 2), 4000>>,
   <<<<2, 1>>, Args(1000, 2000, 2000, 12000, "auto-fit", 500, 1500, "none", 2), 1000>>,
   <<ScenarioCounts, DefaultArgs, 30000>>,
   <<<<1>>, Args(0, 0, 2000, 12000, "fixed", 250, 1000, "append-oncam-tail", 30), None>>}

InitScript ==
  /\ pc = "timeline"
  /\ \E input \in ScriptTimings :
       /\ ReconstructedFrom(input[1])
       /\ args = input[2]
       /\ video_duration = input[3]
  /\ script_pdf \in ScriptInputs
  /\ script_details = NoScript
  /\ InitAfterGroups

SpecScript == InitScript /\ [][BuildTimeline \/ NextRetime \/ Script]_vars

\* command lines for the run as a whole: every export under the defaults, and
\* the two regular decks with a shot clock that is negative, zero or positive,
\* under a PiP lead shorter and longer than a slide
CompletionInputs ==
  {input \in PlanInputs : input[3].fps = 30}
  \cup
  {<<FinalsOf(counts), StagesOf(counts),
     Args(1000, 6000, lead, clock, mode, 500, 1000, "append-oncam-tail", 2), video, script>> :
      counts \in {ScenarioCounts, <<2>>},
      lead \in {2000, 7000},
      clock \in {-1000, 0, 4000},
      mode \in {"fixed", "auto-fit"},
      video \in {None, 4000, 45000},
      script \in PlanScripts}

InitCompletion ==
  /\ pc = "groups"
  /\ \E input \in CompletionInputs :
       /\ final_hashes = input[1]
       /\ stage_hashes = input[2]
       /\ args = input[3]
       /\ video_duration = input[4]
       /\ script_pdf = input[5]
  /\ script_details = NoScript
  /\ InitRest

\* the program is one thread that takes its next step whenever it has one
SpecCompletion == InitCompletion /\ [][Next]_vars /\ WF_vars(Next)

\* the chunk loops of every run above end before the model stops following them
ChunkLoopsFollowed ==
  /\ pc = "chunks" /\ chunks = MaxChunks => chunk_cursor >= slide_timeline[seg_i].end_sec
  /\ pc = "tail_chunks" /\ chunks = MaxChunks => chunk_cursor >= video_duration

(* ============================== claims ================================= *)
\* the per-kind floor in frames: max(1, round(min_seconds * fps))
FloorFrames(kind) ==
  LET seconds == IF kind = "build_hold" THEN args.min_build_seconds ELSE args.min_slide_seconds
  IN  Max(1, RoundDiv(seconds * args.fps, 1000))

\* the retimer has run and build_plan has taken its result
Retimed == pc = "script" /\ timing_adjustment.retimed

\* frames of segment i as authored: max(1, round(duration * fps))
AuthoredFrames(i) ==
  LET k == slide_timeline[i].slide_index
      last == slide_timeline[i].stage_index = groups[k][2] - groups[k][1] + 1
      seconds == IF last THEN args.slide_seconds ELSE args.build_seconds
  IN  Max(1, RoundDiv(seconds * args.fps, 1000))

\* C1 (Group partition): for non-empty exports with at least as many stages as
\* final images, determine_stage_groups returns one group per final image, each
\* with start <= end, the first starting at 0, each later one starting right
\* after the previous one's end, and the last ending at the last stage.
C1_GroupPartition ==
  (pc = "timeline" /\ Len(stage_hashes) >= Len(final_hashes)) =>
    /\ Len(groups) = Len(final_hashes)
    /\ \A k \in 1..Len(groups) : groups[k][1] <= groups[k][2]
    /\ groups[1][1] = 0
    /\ \A k \in 2..Len(groups) : groups[k][1] = groups[k - 1][2] + 1
    /\ groups[Len(groups)][2] = Len(stage_hashes) - 1

\* C2 (Minimum hold): after retiming, every segment has at least the floor of
\* its kind in frames, whether the retimer grew, shrank or kept the total.
C2_MinimumHold ==
  Retimed =>
    \A i \in 1..Len(slide_timeline) :
      frame_counts[i] >= FloorFrames(slide_timeline[i].kind)

\* C3 (Frame conservation): target_total is max(segment count, round(target *
\* fps)); after the retimer the frame counts sum to target_total whenever the
\* retimer grew or kept the total, or shrank to a target that is at least the
\* sum of the floors; Scenario B (600 frames, 30 s at 30 fps) ends with 900.
C3_FrameConservation ==
  Retimed =>
    LET n == Len(slide_timeline)
        floors == SumSeq([i \in 1..n |-> FloorFrames(slide_timeline[i].kind)])
        total == SumSeq(frame_counts)
    IN  /\ target_total = Max(n, RoundDiv(video_duration * args.fps, 1000))
        /\ (target_total >= base_total \/ target_total >= floors) => total = target_total
        /\ (base_total = 600 /\ video_duration = 30000 /\ args.fps = 30) => total = 900

\* a shrink that reached its target
C3_Witness ==
  /\ Retimed
  /\ target_total < base_total
  /\ SumSeq(frame_counts) = target_total
  /\ \E i \in 1..Len(frame_counts) : frame_counts[i] < AuthoredFrames(i)

\* the slack the authored timeline has above the floors
AuthoredSlack ==
  SumSeq([i \in 1..Len(slide_timeline) |->
            Max(0, AuthoredFrames(i) - FloorFrames(slide_timeline[i].kind))])

\* the shrink is short of its target: the deficit exceeds the slack
Shortfall == Retimed /\ target_total < base_total /\ base_total - target_total > AuthoredSlack

\* what C4 says short of the report of the target
ShortfallOutcome ==
  /\ \A i \in 1..Len(slide_timeline) :
       frame_counts[i] = Min(AuthoredFrames(i), FloorFrames(slide_timeline[i].kind))
  /\ SumSeq(frame_counts) > target_total
  /\ timing_adjustment.result_duration_sec = RoundDiv(SumSeq(frame_counts) * 1000, args.fps)

\* C4 (Timing shortfall), as claimed: a shrink that cannot reach target_total
\* ends with every segment that had slack exactly at its floor, a total above
\* target_total, result_duration_sec the achieved frames over fps, and
\* target_duration_sec the requested target duration.
C4_ShortfallAsClaimed ==
  Shortfall => (ShortfallOutcome /\ timing_adjustment.target_duration_sec = video_duration)

\* C4 (Timing shortfall), amended: as claimed, except that target_duration_sec
\* reports target_total over fps, the request in whole frames and never less
\* than one frame per segment.
C4_Shortfall ==
  Shortfall =>
    /\ ShortfallOutcome
    /\ timing_adjustment.target_duration_sec =
         RoundDiv(Max(Len(slide_timeline), RoundDiv(video_duration * args.fps, 1000)) * 1000,
                  args.fps)

\* a shortfall in which build holds and slide holds both gave up frames
C4_Witness ==
  /\ Shortfall
  /\ \E i \in 1..Len(slide_timeline) :
       slide_timeline[i].kind = "build_hold" /\ frame_counts[i] < AuthoredFrames(i)
  /\ \E i \in 1..Len(slide_timeline) :
       slide_timeline[i].kind = "slide_hold" /\ frame_counts[i] < AuthoredFrames(i)

\* the first merge has run
Merged == pc \in {"tail", "tail_chunks", "drift", "done", "written"}

\* C5 (Merge idempotence): merging an already merged main_sequence again gives
\* the same list, every field included.
C5_MergeIdempotent ==
  Merged => merge_adjacent_segments(main_sequence) = main_sequence

\* C6 (Contiguity): after the first merge, and after tail append and re-merge,
\* main_sequence is sorted by start time and every segment ends where the next
\* one starts, for every PiP lead and shot clock.
C6_Contiguity ==
  Merged =>
    \A i \in 1..(Len(main_sequence) - 1) :
      /\ main_sequence[i].start_sec <= main_sequence[i + 1].start_sec
      /\ main_sequence[i].end_sec = main_sequence[i + 1].start_sec

\* the slide timeline exists (as built, or as the retimer left it)
TimelineBuilt == pc \notin {"groups", "timeline", "failed"}

\* C7 (Slide-timeline invariant): as built and after retiming, slide_timeline
\* starts at 0, every segment starts at the previous one's end and ends after
\* its start, and each slide has exactly one slide_hold segment, its last
\* (stage_index = stage_count_for_slide), the earlier ones being build_hold.
C7_SlideTimelineInvariant ==
  TimelineBuilt =>
    LET n == Len(slide_timeline)
    IN  /\ slide_timeline[1].start_sec = 0
        /\ \A i \in 1..n : slide_timeline[i].end_sec > slide_timeline[i].start_sec
        /\ \A i \in 2..n : slide_timeline[i].start_sec = slide_timeline[i - 1].end_sec
        /\ \A k \in 1..Len(groups) :
             LET of_slide == {i \in 1..n : slide_timeline[i].slide_index = k}
                 last == CHOOSE i \in of_slide : \A j \in of_slide : j <= i
             IN  /\ of_slide # {}
                 /\ slide_timeline[last].kind = "slide_hold"
                 /\ slide_timeline[last].stage_index = slide_timeline[last].stage_count_for_slide
                 /\ \A i \in of_slide \ {last} : slide_timeline[i].kind = "build_hold"

\* number of segments of the slides before slide k
RECURSIVE SegmentsBefore(_)
SegmentsBefore(k) ==
  IF k = 1 THEN 0 ELSE SegmentsBefore(k - 1) + (groups[k - 1][2] - groups[k - 1][1] + 1)

\* C8 (Timeline building): the builder emits end-start+1 segments per group,
\* the last with duration slide_seconds and the others with build_seconds,
\* back to back from 0, and timeline_duration is the sum of the durations;
\* stage counts [1,3,1] with 1 s builds and 6 s slides give durations
\* [6,1,1,6,6] and 20 s.
C8_TimelineBuilding ==
  pc = "retime" =>
    LET n == Len(slide_timeline)
        durations == [i \in 1..n |-> slide_timeline[i].duration_sec]
    IN  /\ n = SegmentsBefore(Len(groups) + 1)
        /\ \A k \in 1..Len(groups) :
             LET count == groups[k][2] - groups[k][1] + 1
             IN  \A j \in 1..count :
                   LET seg == slide_timeline[SegmentsBefore(k) + j]
                   IN  /\ seg.slide_index = k /\ seg.stage_index = j
                       /\ seg.duration_sec =
                            IF j = count THEN args.slide_seconds ELSE args.build_seconds
        /\ \A i \in 1..n :
             /\ slide_timeline[i].start_sec =
                  IF i = 1 THEN 0 ELSE slide_timeline[i - 1].end_sec
             /\ slide_timeline[i].end_sec =
                  slide_timeline[i].start_sec + slide_timeline[i].duration_sec
        /\ timeline_duration = SumSeq(durations)
        /\ (groups = <<<<0, 0>>, <<1, 3>>, <<4, 4>>>>
              /\ args.build_seconds = 1000 /\ args.slide_seconds = 6000)
           => (durations = <<6000, 1000, 1000, 6000, 6000>> /\ timeline_duration = 20000)

\* Scenario A built in fixed mode
C8_Witness ==
  /\ pc = "retime"
  /\ args.timing_mode = "fixed"
  /\ groups = <<<<0, 0>>, <<1, 3>>, <<4, 4>>>>
  /\ [i \in 1..Len(slide_timeline) |-> slide_timeline[i].duration_sec]
       = <<6000, 1000, 1000, 6000, 6000>>
  /\ timeline_duration = 20000

\* Scenario B has been retimed: Scenario A's 600 frames grown to a 30 s video
ScenarioB ==
  /\ Retimed
  /\ Len(slide_timeline) = 5 /\ Len(groups) = 3
  /\ args.fps = 30 /\ video_duration = 30000
  /\ base_total = 600 /\ target_total = 900

\* frames the retimer added to segment i (counted from 1)
Added(i) == frame_counts[i] - AuthoredFrames(i)

\* C9 (Scenario B weighting), as claimed: the single-stage slide holds (the
\* first and the fifth segment) each gain at least as many frames as the slide
\* hold of the three-stage slide (the fourth), and the build holds keep theirs.
C9_WeightingAsClaimed ==
  ScenarioB =>
    /\ Added(1) >= Added(4) /\ Added(5) >= Added(4)
    /\ Added(2) = 0 /\ Added(3) = 0

\* C9 (Scenario B weighting), amended: the 300 frames go to the slide holds in
\* proportion to 2 + extra stages, 75 to each single-stage slide hold and 150
\* to the slide hold of the three-stage slide, and the build holds keep theirs.
C9_Weighting ==
  ScenarioB =>
    /\ Added(1) = 75 /\ Added(5) = 75 /\ Added(4) = 150
    /\ Added(2) = 0 /\ Added(3) = 0
    /\ frame_counts = <<255, 30, 30, 330, 255>>

C9_Witness == ScenarioB /\ SumSeq(frame_counts) = 900 /\ Added(4) > 0

\* slide segment i is a slide hold whose midpoint lies in a SLIDE or PIP beat
SlidesPreferred(i) ==
  /\ slide_timeline[i].kind = "slide_hold"
  /\ \E b \in 1..Len(script_beats) :
       /\ script_beats[b].cue \in {"SLIDE", "PIP"}
       /\ 2 * script_beats[b].start_sec <= slide_timeline[i].start_sec + slide_timeline[i].end_sec
       /\ slide_timeline[i].start_sec + slide_timeline[i].end_sec < 2 * script_beats[b].end_sec

\* the rough segments linked to slide segment i
LinkedTo(i) ==
  {r \in 1..Len(rough_main_sequence) :
     /\ rough_main_sequence[r].linked_slide_index = slide_timeline[i].slide_index
     /\ rough_main_sequence[r].linked_stage_index = slide_timeline[i].stage_index}

\* the synthesizer is past slide segment i
Synthesized(i) ==
  \/ pc \in {"synth", "chunks"} /\ seg_i > i
  \/ Merged

\* C10 (Script prefers slides): a slide hold whose midpoint lies in a SLIDE or
\* PIP beat gives exactly one rough segment, covering the whole slide segment,
\* with source pip_slides and reason script_prefers_slides, no wide or punch
\* chunk, and the step that emits it leaves oncam_toggle as it is.
C10_ScriptPrefersSlides ==
  /\ [](\A i \in 1..Len(slide_timeline) :
          (Synthesized(i) /\ SlidesPreferred(i)) =>
             /\ Cardinality(LinkedTo(i)) = 1
             /\ \A r \in LinkedTo(i) :
                  /\ rough_main_sequence[r].start_sec = slide_timeline[i].start_sec
                  /\ rough_main_sequence[r].end_sec = slide_timeline[i].end_sec
                  /\ rough_main_sequence[r].source = "pip_slides"
                  /\ rough_main_sequence[r].reason = "script_prefers_slides")
  /\ [][(pc = "synth" /\ seg_i <= Len(slide_timeline) /\ SlidesPreferred(seg_i))
          => (oncam_toggle' = oncam_toggle /\ seg_i' = seg_i + 1 /\ pc' = "synth")]_vars

\* a plan in which a slide went to the slides on the script's word after the
\* camera had already been cut to
C10_Witness ==
  /\ pc = "done"
  /\ oncam_toggle > 0
  /\ \E i \in 1..Len(slide_timeline) :
       /\ SlidesPreferred(i)
       /\ \E r \in LinkedTo(i) : rough_main_sequence[r].reason = "script_prefers_slides"

\* build_plan has returned the plan
Returned == pc \in {"done", "written"}

\* Scenario D: Scenario A's deck in fixed mode with no script, a 2 s PiP lead,
\* a 12 s shot clock, a 45 s video and the on-camera tail enabled
ScenarioD ==
  /\ Returned
  /\ groups = <<<<0, 0>>, <<1, 3>>, <<4, 4>>>>
  /\ args.build_seconds = 1000 /\ args.slide_seconds = 6000
  /\ args.pip_lead_seconds = 2000 /\ args.shot_clock_seconds = 12000
  /\ args.timing_mode = "fixed" /\ args.video_fit_mode = "append-oncam-tail"
  /\ video_duration = 45000 /\ script_details = NoScript

Cut(start_sec, end_sec, source) ==
  [start_sec |-> start_sec, end_sec |-> end_sec, source |-> source]

CutsOf(segments) ==
  [i \in 1..Len(segments) |->
     Cut(segments[i].start_sec, segments[i].end_sec, segments[i].source)]

\* the wide and punch segments of a list, in order
RECURSIVE CameraCuts(_)
CameraCuts(segments) ==
  IF segments = <<>> THEN <<>>
  ELSE (IF Head(segments).source \in {"wide", "punch"} THEN <<Head(segments)>> ELSE <<>>)
       \o CameraCuts(Tail(segments))

\* C11 (Scenario D tail), as claimed: in Scenario D the tail segments appended
\* are exactly 20-32 wide, 32-44 punch and 44-45 wide.
C11_TailAsClaimed ==
  ScenarioD =>
    CutsOf(tail_segments) = <<Cut(20000, 32000, "wide"), Cut(32000, 44000, "punch"),
                              Cut(44000, 45000, "wide")>>

\* C11 (Scenario D tail), amended: the slide pass of Scenario A has cut to the
\* camera three times (wide 2-6, punch 10-14, wide 16-20), so the tail, which
\* continues the toggle, is exactly 20-32 punch, 32-44 wide and 44-45 punch,
\* and these three are the last segments of main_sequence.
C11_Tail ==
  ScenarioD =>
    /\ CutsOf(CameraCuts(rough_main_sequence)) =
         <<Cut(2000, 6000, "wide"), Cut(10000, 14000, "punch"), Cut(16000, 20000, "wide")>>
    /\ CutsOf(tail_segments) = <<Cut(20000, 32000, "punch"), Cut(32000, 44000, "wide"),
                                 Cut(44000, 45000, "punch")>>
    /\ Len(main_sequence) = Len(pre_tail_sequence) + 3
    /\ SubSeq(CutsOf(main_sequence), Len(pre_tail_sequence) + 1, Len(main_sequence))
         = CutsOf(tail_segments)

\* Scenario D has run: a main sequence of 20 s and a tail up to 45 s
C11_Witness ==
  /\ ScenarioD
  /\ segment_end(pre_tail_sequence) = 20000
  /\ Len(tail_segments) = 3
  /\ main_sequence_duration = 45000

\* C12 (Scenario D warning), as claimed: in Scenario D the plan's warnings
\* contain the duration-drift warning.
C12_DriftWarnedAsClaimed ==
  ScenarioD => \E w \in 1..Len(warnings) : warnings[w] = "duration_drift"

\* C12 (Scenario D warning), amended: in Scenario D the delta is measured
\* after the tail has brought the main sequence to 45 s, so it is 0 and the
\* warnings are the missing-script warning and the tail warning, with no
\* duration-drift warning.
C12_NoDriftAfterTail ==
  ScenarioD =>
    /\ duration_delta = <<0>>
    /\ warnings = <<"no script PDF provided", "appended_oncam_tail">>

\* Scenario D has run: 25 s short before the tail, and the tail was appended
C12_Witness ==
  /\ ScenarioD
  /\ video_duration - segment_end(pre_tail_sequence) = 25000
  /\ tail_segments # <<>>
  /\ duration_delta # <<>>

\* positions of the duration-drift warning in warnings
DriftWarnings == {w \in 1..Len(warnings) : warnings[w] = "duration_drift"}

\* C13 (Drift warning rule): the returned plan has the duration-drift warning
\* exactly when a video duration is known and differs by more than 5 s from the
\* end of main_sequence as the tail reconciliation left it; the warning appears
\* nowhere before; with no video duration there is no drift warning and
\* duration_delta_sec is null; and the drift step always returns the plan.
C13_DriftRule ==
  /\ [](/\ Returned =>
            /\ main_sequence_duration = segment_end(main_sequence)
            /\ DriftWarnings # {} <=>
                 /\ video_duration # None
                 /\ Abs(video_duration - segment_end(main_sequence)) > 5000
            /\ Cardinality(DriftWarnings) <= 1
            /\ duration_delta = IF video_duration = None THEN <<>>
                                ELSE <<video_duration - segment_end(main_sequence)>>
            /\ video_duration = None => (DriftWarnings = {} /\ duration_delta = <<>>)
        /\ ~Returned => DriftWarnings = {})
  /\ [][pc = "drift" => pc' = "done"]_vars

\* a plan returned with the warning for a video shorter than the main sequence
C13_Witness ==
  /\ Returned
  /\ DriftWarnings # {}
  /\ video_duration # None /\ video_duration < main_sequence_duration - 5000

\* C14 (All-or-nothing output): with an empty final-slide or all-stages export
\* the run goes from reconstruction straight to the failure, with no timeline,
\* no main sequence and no plan file; past reconstruction there is one group
\* per final image; and a plan file, once written, holds the finished
\* pipeline's slide timeline (every segment of every group), main sequence,
\* summary (durations, delta, timing adjustment) and warnings.
C14_AllOrNothing ==
  /\ []((final_hashes = <<>> \/ stage_hashes = <<>>) =>
          /\ pc \in {"groups", "failed"}
          /\ slide_timeline = <<>> /\ main_sequence = <<>> /\ plan_file = <<>>)
  /\ [][(pc = "groups" /\ (final_hashes = <<>> \/ stage_hashes = <<>>)) => pc' = "failed"]_vars
  /\ [](pc = "failed" => (slide_timeline = <<>> /\ main_sequence = <<>> /\ plan_file = <<>>))
  /\ [](pc \notin {"groups", "failed"} => Len(groups) = Len(final_hashes))
  /\ [](plan_file # <<>> =>
          LET plan == plan_file[1]
          IN  /\ pc = "written"
              /\ plan.slide_timeline = slide_timeline
              /\ Len(plan.slide_timeline) = SegmentsBefore(Len(groups) + 1)
              /\ Len(plan.slide_timeline) >= Len(final_hashes)
              /\ plan.main_sequence = main_sequence /\ plan.main_sequence # <<>>
              /\ plan.main_sequence = merge_adjacent_segments(rough_main_sequence \o tail_segments)
                 \/ plan.main_sequence =
                      merge_adjacent_segments(merge_adjacent_segments(rough_main_sequence)
                                              \o tail_segments)
              /\ plan.summary.timeline_duration_sec = segment_end(slide_timeline)
              /\ plan.summary.main_sequence_duration_sec = segment_end(main_sequence)
              /\ plan.summary.main_sequence_cut_count = Len(main_sequence)
              /\ plan.summary.duration_delta_sec =
                   IF video_duration = None THEN <<>>
                   ELSE <<video_duration - segment_end(main_sequence)>>
              /\ plan.summary.timing_adjustment.retimed = RetimeWanted
              /\ plan.warnings = warnings
              /\ (\E w \in 1..Len(plan.warnings) : plan.warnings[w] = "appended_oncam_tail")
                   <=> tail_segments # <<>>
              /\ (\E w \in 1..Len(plan.warnings) : plan.warnings[w] = "duration_drift")
                   <=> (video_duration # None
                        /\ Abs(video_duration - segment_end(main_sequence)) > 5000))

\* a plan file written after the tail has been appended to a scripted plan
C14_Witness ==
  /\ plan_file # <<>>
  /\ plan_file[1].beats # <<>>
  /\ tail_segments # <<>>
  /\ plan_file[1].summary.duration_delta_sec = <<0>>

\* build_plan is past the point where it calls the retimer or does not
PastRetime == pc \notin {"groups", "failed", "timeline", "retime",
                         "shrink", "scan", "pool_done", "rebuild"}

\* the retimer is running
InRetimer == pc \in {"shrink", "scan", "pool_done", "rebuild"}

\* every slide segment has the start, end and duration the builder authored
KeepsAuthoredTiming ==
  \A i \in 1..Len(slide_timeline) :
    LET seg == slide_timeline[i]
        authored == IF seg.stage_index = seg.stage_count_for_slide
                    THEN args.slide_seconds ELSE args.build_seconds
    IN  /\ seg.duration_sec = authored
        /\ seg.start_sec = IF i = 1 THEN 0 ELSE slide_timeline[i - 1].end_sec
        /\ seg.end_sec = seg.start_sec + authored

\* C15 (Timing mode): the retimer runs, and a plan is reported as retimed,
\* only in auto-fit mode with a positive video duration; in fixed mode, and
\* with no (or no positive) video duration, every slide segment keeps its
\* authored start, end and duration, the retimer has touched nothing and
\* timing_adjustment is {retimed: false}; with no video duration no tail is
\* appended.
C15_TimingMode ==
  /\ (InRetimer \/ timing_adjustment.retimed) =>
       (args.timing_mode = "auto-fit" /\ video_duration # None /\ video_duration > 0)
  /\ (PastRetime /\ (args.timing_mode = "fixed" \/ video_duration = None \/ video_duration <= 0)) =>
       /\ KeepsAuthoredTiming
       /\ timing_adjustment = [retimed |-> FALSE]
       /\ frame_counts = <<>>
       /\ \A w \in 1..Len(warnings) : warnings[w] # "auto_fit_adjusted"
  /\ video_duration = None =>
       /\ pc # "tail_chunks" /\ tail_segments = <<>>
       /\ Merged => main_sequence = pre_tail_sequence
       /\ \A w \in 1..Len(warnings) : warnings[w] # "appended_oncam_tail"

\* a plan returned in fixed mode although the video is shorter than the slides
C15_Witness ==
  /\ Returned
  /\ args.timing_mode = "fixed"
  /\ video_duration # None /\ video_duration > 0 /\ video_duration < timeline_duration
  /\ KeepsAuthoredTiming
  /\ ~timing_adjustment.retimed

\* the camera chunks emitted so far, the slide pass first and then the tail
CameraChunks == CameraCuts(rough_main_sequence \o tail_segments)

\* the source of the k-th camera chunk, k counted from 0
SourceOfChunk(k) == IF k % 2 = 0 THEN "wide" ELSE "punch"

\* C16 (Toggle alternation): oncam_toggle is at every moment the number of
\* wide/punch chunks emitted so far over the slide pass and the tail, whatever
\* their reason; a step changes it only by adding one together with one such
\* chunk; the k-th camera chunk (from 0) is wide iff k is even; and the first
\* tail chunk's source follows from the number of chunks of the slide pass.
C16_ToggleAlternation ==
  /\ [](/\ oncam_toggle = Len(CameraChunks)
        /\ \A k \in 1..Len(CameraChunks) :
             /\ CameraChunks[k].source = SourceOfChunk(k - 1)
             /\ CameraChunks[k].reason \in
                  {"script_prefers_oncam", "shot_clock_rotation", "video_tail_no_slides"}
        /\ CameraCuts(tail_segments) = tail_segments
        /\ tail_segments # <<>> =>
             tail_segments[1].source = SourceOfChunk(Len(CameraCuts(rough_main_sequence))))
  /\ [][\/ /\ oncam_toggle' = oncam_toggle
            /\ CameraChunks' = CameraChunks
         \/ /\ oncam_toggle' = oncam_toggle + 1
            /\ Len(CameraChunks') = Len(CameraChunks) + 1
            /\ SubSeq(CameraChunks', 1, Len(CameraChunks)) = CameraChunks]_vars

\* a plan whose slide pass cut to the camera on the script's word and on the
\* shot clock, an odd number of times in all, so that the tail starts on punch
C16_Witness ==
  /\ Returned
  /\ \E r \in 1..Len(rough_main_sequence) :
       rough_main_sequence[r].reason = "script_prefers_oncam"
  /\ \E r \in 1..Len(rough_main_sequence) :
       rough_main_sequence[r].reason = "shot_clock_rotation"
  /\ Len(CameraCuts(rough_main_sequence)) % 2 = 1
  /\ Len(tail_segments) >= 2
  /\ tail_segments[1].source = "punch" /\ tail_segments[2].source = "wide"

\* frames segment i has above the floor of its kind
Slack(i) == frame_counts[i] - FloorFrames(slide_timeline[i].kind)

\* the segments of the pool being shrunk
PoolSegments ==
  {i \in 1..Len(slide_timeline) :
     \/ pool = "slide" /\ slide_timeline[i].kind = "slide_hold"
     \/ pool = "build" /\ slide_timeline[i].kind = "build_hold"
     \/ pool = "all"}

\* the retimer is shrinking
Shrinking == pc \in {"shrink", "scan", "pool_done"}

\* C17 (Shrink selection): while shrinking, a step that changes the frame
\* counts takes exactly one frame from one segment of the current pool, and
\* that segment has slack and no segment of the pool has more slack at that
\* moment; a pool is left with frames still to remove only when no segment
\* in it has slack.
C17_ShrinkSelection ==
  /\ [][(Shrinking /\ frame_counts' # frame_counts) =>
          \E i \in PoolSegments :
            /\ frame_counts' = [frame_counts EXCEPT ![i] = @ - 1]
            /\ remainder' = remainder - 1
            /\ Slack(i) > 0
            /\ \A j \in PoolSegments : Slack(j) <= Slack(i)]_vars
  /\ []((pc = "pool_done" /\ remainder > 0) => \A j \in PoolSegments : Slack(j) <= 0)

\* in the middle of a pass: a frame has been taken, frames remain to be taken,
\* and the segments of the pool differ in slack
C17_Witness ==
  /\ pc = "scan" /\ progressed /\ remainder > 0
  /\ cand_pos <= Len(candidates)
  /\ \E i, j \in PoolSegments : Slack(i) > Slack(j) /\ Slack(j) > 0

\* the segments of a kind
OfKind(kind) == {i \in 1..Len(slide_timeline) : slide_timeline[i].kind = kind}

\* C18 (Shrink pool order): while shrinking, a slide hold loses a frame only
\* in the first pass; a build hold loses a frame only when every slide hold is
\* at or below its floor; the second pass runs only then; and the third pass
\* over any segment runs only with frames still to remove and no segment of
\* either kind above its floor.
C18_ShrinkPoolOrder ==
  /\ [][Shrinking =>
          \A i \in 1..Len(frame_counts) :
            frame_counts'[i] < frame_counts[i] =>
              /\ i \in OfKind("slide_hold") => pool = "slide"
              /\ i \in OfKind("build_hold") =>
                   (pool = "build" /\ \A j \in OfKind("slide_hold") : Slack(j) <= 0)]_vars
  /\ []((Shrinking /\ pool = "build") => \A j \in OfKind("slide_hold") : Slack(j) <= 0)
  /\ []((Shrinking /\ pool = "all") =>
          /\ remainder > 0
          /\ \A j \in 1..Len(frame_counts) : Slack(j) <= 0)

\* the second pass has taken a frame from a build hold and has more to take
C18_Witness ==
  /\ pc = "scan" /\ pool = "build" /\ progressed /\ remainder > 0
  /\ \E i \in OfKind("build_hold") : frame_counts[i] < AuthoredFrames(i)
  /\ \E i \in OfKind("slide_hold") : frame_counts[i] < AuthoredFrames(i)

\* the retimer has grown a timeline that has slide holds
Grown == Retimed /\ target_total > base_total /\ OfKind("slide_hold") # {}

\* the weight of slide hold i: 2 + (stage_count_for_slide - 1)
HoldWeight(i) == 2 + (slide_timeline[i].stage_count_for_slide - 1)

\* floor(extra * w_i / W) for slide hold i
FloorShare(i) ==
  LET W == SumSeq([j \in 1..Len(slide_timeline) |->
                     IF j \in OfKind("slide_hold") THEN HoldWeight(j) ELSE 0])
  IN  ((target_total - base_total) * HoldWeight(i)) \div W

\* the frames the floors leave over
Leftover ==
  (target_total - base_total)
    - SumSeq([j \in 1..Len(slide_timeline) |->
                IF j \in OfKind("slide_hold") THEN FloorShare(j) ELSE 0])

\* the slide holds that come before slide hold i in descending weight order,
\* a lower index first among equal weights
Before(i) ==
  {j \in OfKind("slide_hold") :
     \/ HoldWeight(j) > HoldWeight(i)
     \/ HoldWeight(j) = HoldWeight(i) /\ j < i}

\* the frames a round robin over that order gives slide hold i
Turns(i) ==
  LET n == Cardinality(OfKind("slide_hold"))
  IN  (Leftover \div n) + (IF Cardinality(Before(i)) < Leftover % n THEN 1 ELSE 0)

\* C19 (Grow distribution): after growing a timeline with at least one slide
\* hold, every build hold has its authored frame count, and slide hold i has
\* gained floor(extra * w_i / W) frames plus its turns in the round robin that
\* hands the leftover out one frame at a time in descending weight order,
\* lower index first among equal weights.
C19_GrowDistribution ==
  Grown =>
    /\ \A i \in OfKind("build_hold") : Added(i) = 0
    /\ \A i \in OfKind("slide_hold") : Added(i) = FloorShare(i) + Turns(i)
    /\ Leftover >= 0 /\ Leftover < Cardinality(OfKind("slide_hold"))

\* a grow in which the leftover reached the heavier slide hold and not the
\* lighter one before it
C19_Witness ==
  /\ Grown
  /\ Leftover > 0
  /\ \E i, j \in OfKind("slide_hold") :
       /\ j < i /\ HoldWeight(i) > HoldWeight(j)
       /\ FloorShare(i) > 0 /\ FloorShare(j) > 0
       /\ Added(i) = FloorShare(i) + 1
       /\ Added(j) = FloorShare(j)

\* slide segment i is a build hold whose midpoint lies in an ONCAM beat
BuildHoldUnderOncam(i) ==
  /\ slide_timeline[i].kind = "build_hold"
  /\ \E b \in 1..Len(script_beats) :
       /\ script_beats[b].cue = "ONCAM"
       /\ 2 * script_beats[b].start_sec <= slide_timeline[i].start_sec + slide_timeline[i].end_sec
       /\ slide_timeline[i].start_sec + slide_timeline[i].end_sec < 2 * script_beats[b].end_sec

\* C20 (Build transitions): every build hold gives exactly one rough segment,
\* spanning the whole slide segment, with source pip_slides and reason
\* build_transition, whatever beat its midpoint lies in, and the step that
\* emits it leaves oncam_toggle as it is.
C20_BuildTransitions ==
  /\ [](\A i \in 1..Len(slide_timeline) :
          (Synthesized(i) /\ slide_timeline[i].kind = "build_hold") =>
             /\ Cardinality(LinkedTo(i)) = 1
             /\ \A r \in LinkedTo(i) :
                  /\ rough_main_sequence[r].start_sec = slide_timeline[i].start_sec
                  /\ rough_main_sequence[r].end_sec = slide_timeline[i].end_sec
                  /\ rough_main_sequence[r].duration_sec =
                       slide_timeline[i].end_sec - slide_timeline[i].start_sec
                  /\ rough_main_sequence[r].source = "pip_slides"
                  /\ rough_main_sequence[r].reason = "build_transition")
  /\ [][(pc = "synth" /\ seg_i <= Len(slide_timeline)
            /\ slide_timeline[seg_i].kind = "build_hold")
          => /\ oncam_toggle' = oncam_toggle
             /\ Len(rough_main_sequence') = Len(rough_main_sequence) + 1
             /\ seg_i' = seg_i + 1 /\ pc' = "synth"]_vars

\* a plan in which a build hold under an ONCAM beat went to the slides between
\* two cuts to the camera
C20_Witness ==
  /\ Returned
  /\ \E i \in 1..Len(slide_timeline) :
       /\ BuildHoldUnderOncam(i)
       /\ slide_timeline[i].end_sec > slide_timeline[i].start_sec
       /\ \E r \in LinkedTo(i) :
            /\ rough_main_sequence[r].reason = "build_transition"
            /\ \E q \in 1..(r - 1) : rough_main_sequence[q].reason = "script_prefers_oncam"
            /\ \E q \in (r + 1)..Len(rough_main_sequence) :
                 rough_main_sequence[q].reason = "script_prefers_oncam"

\* every rough segment the plan was made of: the slide pass, then the tail
AllRough == rough_main_sequence \o tail_segments

\* the positions after which the merge starts a new segment: the next rough
\* segment has another source or does not start where this one ends
Breaks ==
  {k \in 1..(Len(AllRough) - 1) :
     \/ AllRough[k].source # AllRough[k + 1].source
     \/ AllRough[k].end_sec # AllRough[k + 1].start_sec}

\* the rough segments that went into the n-th merged segment
MergedInto(n) ==
  {k \in 1..Len(AllRough) : Cardinality({b \in Breaks : b < k}) = n - 1}

\* C21 (Merged reasons): in the returned plan main_sequence has one segment
\* per run of rough segments of the same source that follow each other without
\* a gap, and the reasons list of each segment is the list of the reasons of
\* the rough segments of its run, in order.
C21_MergedReasons ==
  Returned =>
    /\ Len(main_sequence) = IF AllRough = <<>> THEN 0 ELSE Cardinality(Breaks) + 1
    /\ \A n \in 1..Len(main_sequence) :
         LET run == MergedInto(n)
             first == CHOOSE k \in run : \A j \in run : k <= j
         IN  /\ run # {}
             /\ main_sequence[n].source = AllRough[first].source
             /\ main_sequence[n].reasons =
                  [k \in 1..Cardinality(run) |-> AllRough[first + k - 1].reason]

\* the indices (0-based) at or after c at which S holds fingerprint h
MatchesFrom(c, h) == {j \in c..(Len(stage_hashes) - 1) : stage_hashes[j + 1] = h}

\* the reconstruction loop is about to process F[fi]
AtFinal == pc = "groups" /\ final_hashes # <<>> /\ stage_hashes # <<>>
             /\ fi <= Len(final_hashes)

\* C22 (Forward matching): the cursor starts at 0 and never moves backwards;
\* a step that processes an F[i] occurring in S at or after the cursor c
\* appends the group (c, j), j the smallest such index, and sets the cursor
\* to j + 1; and the step that ends the reconstruction extends the last
\* group's end to m - 1 if the cursor is below m, changing nothing else.
C22_ForwardMatching ==
  /\ [](pc = "groups" /\ fi = 1 => cursor = 0)
  /\ [][cursor' >= cursor]_vars
  /\ [][(AtFinal /\ MatchesFrom(cursor, final_hashes[fi]) # {}) =>
          LET hits == MatchesFrom(cursor, final_hashes[fi])
              j == CHOOSE x \in hits : \A y \in hits : x <= y
          IN  /\ groups' = Append(groups, <<cursor, j>>)
              /\ cursor' = j + 1
              /\ fi' = fi + 1 /\ pc' = "groups"]_vars
  /\ [][(pc = "groups" /\ final_hashes # <<>> /\ stage_hashes # <<>>
            /\ fi > Len(final_hashes)) =>
          /\ pc' = "timeline"
          /\ cursor' = cursor
          /\ Len(groups') = Len(groups)
          /\ \A k \in 1..Len(groups) :
               /\ groups'[k][1] = groups[k][1]
               /\ groups'[k][2] = IF k = Len(groups) /\ cursor < Len(stage_hashes)
                                  THEN Len(stage_hashes) - 1 ELSE groups[k][2]]_vars

\* a reconstruction whose only final image occurs twice among the stages: the
\* first occurrence ended its group, and the trailing stage was added to it
C22_Witness ==
  /\ pc = "timeline"
  /\ Len(final_hashes) = 1 /\ Len(stage_hashes) = 3
  /\ Cardinality(MatchesFrom(0, final_hashes[1])) = 2
  /\ cursor = 2
  /\ groups = <<<<0, 2>>>>

\* the reconstruction loop is about to process an F[fi] with no match in S at
\* or after the cursor
AtUnmatched == AtFinal /\ MatchesFrom(cursor, final_hashes[fi]) = {}

\* the degenerate group's index min(c, m - 1)
FallbackIndex == Min(cursor, Len(stage_hashes) - 1)

\* C23 (No-match fallback), as claimed: the step that processes an F[i] with
\* no match at or after the cursor c appends the group (min(c, m-1),
\* min(c, m-1)), advances c by one and goes on with F[i+1].
C23_FallbackAsClaimed ==
  [][AtUnmatched =>
       /\ groups' = Append(groups, <<FallbackIndex, FallbackIndex>>)
       /\ cursor' = cursor + 1
       /\ fi' = fi + 1 /\ pc' = "groups"]_vars

\* C23 (No-match fallback), amended: as claimed, except that the cursor
\* becomes min(c, m-1) + 1: it advances by one while it is below m and stays
\* at m once it has reached the end of S.
C23_Fallback ==
  [][AtUnmatched =>
       /\ groups' = Append(groups, <<FallbackIndex, FallbackIndex>>)
       /\ cursor' = FallbackIndex + 1
       /\ cursor' = IF cursor < Len(stage_hashes) THEN cursor + 1 ELSE cursor
       /\ cursor <= Len(stage_hashes)
       /\ fi' = fi + 1 /\ pc' = "groups"]_vars

\* the second final image was looked for with the cursor at the end of S: it
\* got the last stage again and the cursor stayed where it was
C23_Witness ==
  /\ pc = "timeline"
  /\ Len(final_hashes) = 2 /\ Len(stage_hashes) = 2
  /\ MatchesFrom(0, final_hashes[2]) = {}
  /\ groups = <<<<0, 1>>, <<1, 1>>>>
  /\ cursor = 2

\* build_plan has its script details
ScriptRead == pc \notin {"groups", "failed", "timeline", "retime", "shrink", "scan",
                         "pool_done", "rebuild", "script"}

\* the positions of the PDF's lines that bear a cue
CueBearing == {k \in 1..Len(script_pdf.lines) : script_pdf.lines[k].tag # ""}

\* the cue category of a line that bears one
CueOf(line) ==
  IF line.tag \in {"ON-CAM", "ONCAM", "on-cam"} THEN "ONCAM"
  ELSE IF line.tag \in {"B-ROLL", "BROLL", "b-roll"} THEN "BROLL"
  ELSE IF line.tag \in {"SLIDE", "Slide"} THEN "SLIDE"
  ELSE line.tag

\* the position at which a line occurs first in the PDF
FirstAt(line) ==
  CHOOSE k \in 1..Len(script_pdf.lines) :
    /\ script_pdf.lines[k] = line
    /\ \A j \in 1..(k - 1) : script_pdf.lines[j] # line

\* C24 (Cue deduplication): once a given, readable script is parsed, the cue
\* list holds every distinct cue-bearing line exactly once, with its cue, in
\* order of first occurrence; each counter is the number of occurrences of
\* cue-bearing lines of its category, so the counters sum to the number of
\* cue-bearing lines, which is at least the length of the cue list; and with
\* no script the details have available = false (and no cues).
C24_CueDeduplication ==
  /\ (ScriptRead /\ script_pdf.given /\ script_pdf.pypdf) =>
       LET cues == script_details.cue_lines
           counts == script_details.cue_counts
       IN  /\ script_details.available
           /\ {cues[c].text : c \in 1..Len(cues)} = {script_pdf.lines[k] : k \in CueBearing}
           /\ \A c, d \in 1..Len(cues) : c # d => cues[c].text # cues[d].text
           /\ \A c \in 1..Len(cues) : cues[c].cue = CueOf(cues[c].text)
           /\ \A c, d \in 1..Len(cues) :
                c < d => FirstAt(cues[c].text) < FirstAt(cues[d].text)
           /\ \A cue \in Cues :
                counts[cue] = Cardinality({k \in CueBearing : CueOf(script_pdf.lines[k]) = cue})
           /\ counts["ONCAM"] + counts["SLIDE"] + counts["PIP"] + counts["BROLL"]
                + counts["GFX"] + counts["MUSIC"] = Cardinality(CueBearing)
           /\ Cardinality(CueBearing) >= Len(cues)
  /\ (ScriptRead /\ ~script_pdf.given) =>
       /\ ~script_details.available
       /\ script_details.cue_lines = <<>>
       /\ script_details.warning # NoWarning

\* a script parsed in which a cue line came twice around another one
C24_Witness ==
  /\ ScriptRead /\ script_pdf.given /\ script_pdf.pypdf
  /\ Len(script_pdf.lines) = 3
  /\ script_pdf.lines[1] = script_pdf.lines[3] /\ script_pdf.lines[1] # script_pdf.lines[2]
  /\ CueBearing = {1, 2, 3}
  /\ Len(script_details.cue_lines) = 2
  /\ script_details.cue_counts[CueOf(script_pdf.lines[1])] >= 2

\* the beats whose interval holds the midpoint of slide segment i
BeatsAt(i) ==
  {b \in 1..Len(script_beats) :
     /\ 2 * script_beats[b].start_sec <= slide_timeline[i].start_sec + slide_timeline[i].end_sec
     /\ slide_timeline[i].start_sec + slide_timeline[i].end_sec < 2 * script_beats[b].end_sec}

\* the beats are k, they tile [0, D) of the timeline as the retimer left it,
\* every midpoint is in one of them, and each prefers what its cue says
BeatsTile ==
  LET k == Len(script_details.cue_lines)
      D == segment_end(slide_timeline)
  IN  /\ timeline_duration = D
      /\ Len(script_beats) = k
      /\ script_beats[1].start_sec = 0
      /\ script_beats[k].end_sec = D
      /\ \A b \in 1..(k - 1) : script_beats[b].end_sec = script_beats[b + 1].start_sec
      /\ \A i \in 1..Len(slide_timeline) : Cardinality(BeatsAt(i)) = 1
      /\ \A b \in 1..k :
           /\ script_beats[b].cue = script_details.cue_lines[b].cue
           /\ script_beats[b].preferred_source =
                CASE script_beats[b].cue \in {"SLIDE", "PIP"} -> "pip_slides"
                  [] script_beats[b].cue = "ONCAM" -> "oncam"
                  [] script_beats[b].cue = "BROLL" -> "broll"
                  [] script_beats[b].cue \in {"GFX", "MUSIC"} -> NoPreference

C25_WitnessNoDuration ==
  /\ ScriptRead /\ script_details.cue_lines # <<>> /\ timeline_duration = 0
  /\ script_beats = <<>>

\* C26 (Configuration boundary): the timeline builder and the synthesizer run
\* only for a configuration whose build_seconds, slide_seconds and
\* shot_clock_seconds are all positive; a non-positive one is turned away
\* before, so no plan is built from it.
C26_ConfigurationBoundary ==
  TimelineBuilt =>
     /\ args.build_seconds > 0
     /\ args.slide_seconds > 0
     /\ args.shot_clock_seconds > 0

\* segment n of the final main_sequence is a camera segment
OnCamera(n) == main_sequence[n].source \in {"wide", "punch"}

\* C27 (Shot clock bound): in the returned plan's main_sequence, after merging
\* and after any tail append, every wide or punch segment lasts at most
\* shot_clock_seconds, and two camera segments that follow each other are on
\* different cameras (so the merge never joins them); only pip_slides
\* segments may be longer.
C27_ShotClockBound ==
  Returned =>
     /\ \A n \in 1..Len(main_sequence) :
          OnCamera(n) =>
             /\ main_sequence[n].duration_sec <= args.shot_clock_seconds
             /\ main_sequence[n].end_sec - main_sequence[n].start_sec <= args.shot_clock_seconds
     /\ \A n \in 1..(Len(main_sequence) - 1) :
          (OnCamera(n) /\ OnCamera(n + 1)) =>
             main_sequence[n].source # main_sequence[n + 1].source

\* a returned plan with a tail of several camera segments, after camera
\* segments of the full shot clock in the main part and a merged PiP segment
\* longer than the shot clock
C27_Witness ==
  /\ Returned
  /\ Len(tail_segments) >= 2
  /\ \E n \in 1..(Len(main_sequence) - 1) :
       /\ OnCamera(n) /\ OnCamera(n + 1)
       /\ main_sequence[n].reasons = <<"shot_clock_rotation">>
       /\ main_sequence[n].duration_sec = args.shot_clock_seconds
       /\ main_sequence[n + 1].reasons = <<"shot_clock_rotation">>
  /\ \E n \in 1..Len(main_sequence) :
       /\ main_sequence[n].source = "pip_slides"
       /\ main_sequence[n].duration_sec > args.shot_clock_seconds

\* C28 (Run to completion): every run comes to its end: the exports are
\* rejected, or the retimer's loops, the chunk loop of every slide segment and
\* the tail loop finish and the plan is written.  (A loop is followed for
\* MaxChunks passes; a run that has not left it by then, its condition
\* cursor < end still true, is one whose passes do not advance the cursor.)
C28_RunToCompletion == <>(pc \in {"written", "failed"})

\* the rough segments linked to slide segment i, in the order they were emitted
LinkedRun(i) == SelectSeq(rough_main_sequence,
                  LAMBDA rough : /\ rough.linked_slide_index = slide_timeline[i].slide_index
                                 /\ rough.linked_stage_index = slide_timeline[i].stage_index)

\* the rough segments of slide segment i start at its start, follow each other
\* without gap or overlap, stay inside it and end at its end
TilesSegment(i) ==
  LET run == LinkedRun(i)
  IN  /\ run # <<>>
      /\ run[1].start_sec = slide_timeline[i].start_sec
      /\ run[Len(run)].end_sec = slide_timeline[i].end_sec
      /\ \A n \in 1..Len(run) :
           /\ slide_timeline[i].start_sec <= run[n].start_sec
           /\ run[n].start_sec <= run[n].end_sec
           /\ run[n].end_sec <= slide_timeline[i].end_sec
      /\ \A n \in 1..(Len(run) - 1) : run[n].end_sec = run[n + 1].start_sec

\* C29 (Exact coverage): after the first merge and before any tail is
\* appended, main_sequence starts at 0 and ends at the slide timeline's end
\* (main_sequence_duration = timeline_duration), and the rough segments linked
\* to each slide segment tile that segment's interval exactly.
C29_ExactCoverage ==
  pc = "tail" =>
     /\ main_sequence # <<>>
     /\ main_sequence[1].start_sec = 0
     /\ main_sequence[Len(main_sequence)].end_sec = segment_end(slide_timeline)
     /\ main_sequence_duration = timeline_duration
     /\ \A i \in 1..Len(slide_timeline) : TilesSegment(i)

\* the duration of the slide timeline as authored
AuthoredDuration ==
  SumSeq([i \in 1..Len(slide_timeline) |->
            IF slide_timeline[i].kind = "slide_hold"
            THEN args.slide_seconds ELSE args.build_seconds])

\* C30 (Auto-fit needs no tail): in auto-fit mode with a video longer than the
\* authored slide timeline, the returned plan's main sequence reaches the
\* video duration through the retimed timeline alone: no tail is built and no
\* segment of main_sequence has the reason video_tail_no_slides.
C30_AutoFitNoTail ==
  (/\ Returned
   /\ args.timing_mode = "auto-fit"
   /\ video_duration # None
   /\ video_duration > AuthoredDuration) =>
     /\ timeline_duration = video_duration
     /\ main_sequence_duration = video_duration
     /\ tail_segments = <<>>
     /\ \A n \in 1..Len(main_sequence) :
          \A r \in 1..Len(main_sequence[n].reasons) :
             main_sequence[n].reasons[r] # "video_tail_no_slides"

====
